---- MODULE Spec2Model ----
(***************************************************************************)
(* A model of vibeflow-cli: the session registry (store.go), the tmux       *)
(* adapter (tmux.go), the session-marker conflict detector (conflict.go),   *)
(* the health monitor (health_monitor.go, error_patterns.go) and the        *)
(* launch / refresh / kill / restart paths (tui.go, commands.go).           *)
(*                                                                         *)
(* Strings that the code takes apart are sequences of tokens: the tokens    *)
(* of a name are the pieces between its "-" separators, and the reserved    *)
(* prefix "vibeflow_" is a token of its own that is glued to the next one   *)
(* without a separator.  "vibeflow_claude-session-a1" is                    *)
(* <<"vibeflow_", "claude", "session", "a1">>.                              *)
(***************************************************************************)
EXTENDS Integers, Sequences, FiniteSets, TLC

\* ------------------------------------------------------------------ bounds

\* Concurrent instances sharing one registry file (store specification).
NumProcs == 2
\* Store calls issued in one behaviour of the store specification.
MaxCalls == 3
\* Largest configured max_retries (0..MaxRetriesTop are explored).
MaxRetriesTop == 2
\* The clock advances in steps of TickSeconds and stops at MaxNow (seconds).
TickSeconds == 30
MaxNow == 90
\* Sessions launched in one behaviour of the session specification.
MaxLaunches == 2
\* CLI restarts run in one behaviour of the session specification.
MaxRestarts == 2
\* UI instances started by one user (PID-lock specification).
NumInsts == 3

\* ------------------------------------------------------------ shared names

sessionPrefix == "vibeflow_"

NoProc == 0

\* The zero value of SessionMeta (Go's SessionMeta{}).
NoMeta ==
    [Name |-> <<>>, TmuxSession |-> <<>>, Provider |-> "", Persona |-> "",
     WorkingDir |-> <<>>, WorktreePath |-> <<>>]

VARIABLES
    \* --- registry file and its lock (store.go)
    file,        \* contents of sessions.json: a sequence of SessionMeta
    lock,        \* holder of the flock on sessions.json.lock, or NoProc
    spc,         \* per instance: position inside Store.withLock
    sop,         \* per instance: the call in progress
    slocal,      \* per instance: the slice readFile returned
    done,        \* the calls that returned nil, in the order they returned
    ncalls,      \* calls issued so far
    \* --- health monitor (health_monitor.go)
    hsess,       \* hm.sessions: name -> SessionHealth (Tracked = FALSE: absent)
    hcfg,        \* hm.config
    now,         \* the wall clock, in seconds
    hlast,       \* the last call made on the monitor and what it returned
    hsent,       \* per name: recovery messages sent since RecoveryCount was zeroed
    \* --- mux, marker files and the running commands (tmux.go, conflict.go,
    \*     tui.go, commands.go)
    mux,         \* the live tmux sessions: records [Name, WorkDir]
    markers,     \* per directory and persona: the marker file's lines
    rows,        \* the UI's session list (Model.sessions): short names
    th,          \* per thread of control: position and locals
    nlaunch,     \* session ids generated so far
    nrestart,    \* restarts run so far
    lastOp,      \* the UI command whose refresh pass ended in the last step
    \* --- one conflict check (conflict.go)
    cin,         \* the arguments of the check
    cres,        \* its result
    \* --- the UI's PID lock (pidlock.go)
    pidfile,     \* the PID in vibeflow.pid, NoPid when there is no file
    ipc,         \* per UI instance: position inside runTUI
    pidres,      \* per UI instance: what AcquirePIDLock returned
    \* --- the marker files of the personas (conflict.go)
    mfs,         \* per marker file (directory, file name): its lines
    mcall,       \* the last marker operation: arguments and result
    mfresh,      \* the last write-marker that succeeded, while no marker
                 \* file has changed since
    \* --- the error pattern registry (error_patterns.go)
    reg,         \* ErrorPatternRegistry.patterns
    rcall,       \* the last call of the registry: arguments and result
    \* --- the conflict prompt of the TUI (tui_conflict.go)
    cm,          \* Model.conflictModal, with the last key it handled
    \* --- AttemptRecovery's backoff in nanoseconds (health_monitor.go)
    bk,          \* the inputs of one AttemptRecovery and what it computed
    \* --- the selected session's pane as the TUI watches it (tui.go)
    tmuxAttached,   \* a client is attached to the tmux session
    rowAttached,    \* SessionRow.TmuxAttached of its row in Model.sessions
    captureOutput,  \* Model.captureOutput
    \* --- the worktree list view of the TUI (tui_worktrees.go)
    wtGit,          \* the linked worktrees "git worktree list" reports
    activeView,     \* Model.activeView: "sessions" or "worktrees"
    worktreeList    \* Model.worktreeList

storeCtl == <<lock, spc, sop, slocal, done, ncalls>>

storeVars == <<file, lock, spc, sop, slocal, done, ncalls>>

healthVars == <<hsess, hcfg, now, hlast, hsent>>

sessVars == <<mux, markers, rows, th, nlaunch, nrestart, lastOp>>

conflictVars == <<cin, cres>>

pidVars == <<pidfile, ipc, pidres>>

markVars == <<mfs, mcall, mfresh>>

regVars == <<reg, rcall>>

modalVars == <<cm>>

backoffVars == <<bk>>

paneVars == <<tmuxAttached, rowAttached, captureOutput>>

wtVars == <<wtGit, activeView, worktreeList>>

\* The state outside the session, health, conflict, pid and marker parts.
extVars == <<regVars, modalVars,
            backoffVars,
            paneVars,
            wtVars>>

vars == <<file, lock, spc, sop, slocal, done, ncalls,
          hsess, hcfg, now, hlast, hsent,
          mux, markers, rows, th, nlaunch, nrestart, lastOp,
          cin, cres,
          pidfile, ipc, pidres,
          mfs, mcall, mfresh,
          reg, rcall,
          cm,
          bk,
          tmuxAttached, rowAttached, captureOutput,
          wtGit, activeView, worktreeList>>

\* --------------------------------------------------------------- store.go

\* Mutant of StoreAdd: the entry is appended whatever the file holds.
StoreAddAppendOnly(sessions, meta) == Append(sessions, meta)

\* Store.Add's transformer: drop every entry with meta's name, append meta.
StoreAdd(sessions, meta) ==
    Append(SelectSeq(sessions, LAMBDA m : m.Name # meta.Name), meta)

\* Store.Remove's transformer.
StoreRemove(sessions, name) ==
    SelectSeq(sessions, LAMBDA m : m.Name # name)

\* Mutant of StoreSync: the entries are looked up by their short name.
StoreSyncByName(sessions, activeTmux) ==
    SelectSeq(sessions, LAMBDA m : m.Name \in activeTmux)

\* Store.Sync's transformer: keep the entries whose TmuxSession is active.
StoreSync(sessions, activeTmux) ==
    SelectSeq(sessions, LAMBDA m : m.TmuxSession \in activeTmux)

\* Store.Get on the contents List returned.
StoreFound(sessions, name) ==
    \E i \in 1..Len(sessions) : sessions[i].Name = name

StoreGet(sessions, name) ==
    IF StoreFound(sessions, name)
    THEN sessions[CHOOSE i \in 1..Len(sessions) :
                     /\ sessions[i].Name = name
                     /\ \A j \in 1..(i - 1) : sessions[j].Name # name]
    ELSE NoMeta

\* Mutant of StoreDiscover: an entry is known by its short name.
StoreDiscoverByName(sessions, liveTmuxNames) ==
    SelectSeq(liveTmuxNames,
              LAMBDA n : \A i \in 1..Len(sessions) : sessions[i].Name # n)

\* Store.Discover: the live names, in order, that no entry has as TmuxSession.
StoreDiscover(sessions, liveTmuxNames) ==
    SelectSeq(liveTmuxNames,
              LAMBDA n : \A i \in 1..Len(sessions) : sessions[i].TmuxSession # n)

\* The metas and names the store specification's callers pass.
StoreMetas ==
    { [NoMeta EXCEPT !.Name = <<"session", n>>,
                     !.TmuxSession = <<sessionPrefix, "claude", "session", n>>,
                     !.Provider = "claude",
                     !.WorkingDir = d]
      : n \in {"a1", "b2"}, d \in {<<"repo">>, <<"wt">>} }

StoreNames == { m.Name : m \in StoreMetas }

StoreCalls ==
    { [kind |-> "add", name |-> m.Name, meta |-> m] : m \in StoreMetas }
    \cup { [kind |-> "remove", name |-> n, meta |-> NoMeta] : n \in StoreNames }

NoCall == [kind |-> "none", name |-> <<>>, meta |-> NoMeta]

\* The transformer a call hands to withLock.
Transform(call, sessions) ==
    IF call.kind = "add" THEN StoreAdd(sessions, call.meta)
    ELSE IF call.kind = "remove" THEN StoreRemove(sessions, call.name)
    ELSE sessions

Procs == 1..NumProcs

\* Mutant of FlockFree: the lock excludes nobody.
FlockFreeAlways(holder) == TRUE

\* flockWithTimeout's syscall.Flock(LOCK_EX|LOCK_NB) succeeds iff no other
\* open file description holds the lock.
FlockFree(holder) == holder = NoProc

\* The monitor of an instance that has captured nothing.
HealthIdle ==
    /\ hsess = <<>>
    /\ hcfg = <<>>
    /\ now = 0
    /\ hlast = <<>>
    /\ hsent = <<>>

\* No command has run: no session, no marker, nothing listed.
SessIdle ==
    /\ mux = {}
    /\ markers = <<>>
    /\ rows = <<>>
    /\ th = <<>>
    /\ nlaunch = 0
    /\ nrestart = 0
    /\ lastOp = <<>>

\* No conflict check has been asked for.
ConflictIdle ==
    /\ cin = <<>>
    /\ cres = <<>>

\* No UI instance has been started.
PidIdle ==
    /\ pidfile = 0
    /\ ipc = <<>>
    /\ pidres = <<>>

\* The zero WorktreeListModel.
NoWorktreeList ==
    [rows |-> <<>>, cursor |-> 0, done |-> FALSE, deleted |-> FALSE,
     deletedWt |-> <<>>]

\* No linked worktree exists and the session list is shown.
WtIdle ==
    /\ wtGit = {}
    /\ activeView = "sessions"
    /\ worktreeList = NoWorktreeList

\* No pane is watched.
PaneIdle ==
    /\ tmuxAttached = FALSE
    /\ rowAttached = FALSE
    /\ captureOutput = <<>>

\* No backoff has been computed.
BackoffIdle == bk = <<>>

\* The zero ConflictModal: no prompt has been opened.
NoModal ==
    [status |-> "none", sessionID |-> <<>>, options |-> <<>>, cursor |-> 0,
     done |-> FALSE, action |-> "switch", key |-> ""]

ModalIdle == cm = NoModal

\* No registry has been built.
RegIdle ==
    /\ reg = <<>>
    /\ rcall = <<>>

\* No marker operation has run.
MarkIdle ==
    /\ mfs = <<>>
    /\ mcall = <<>>
    /\ mfresh = <<>>

\* An absent registry file reads as the empty list; nobody holds the lock.
StoreIdle ==
    /\ file = <<>>
    /\ lock = NoProc
    /\ spc = [p \in Procs |-> "idle"]
    /\ sop = [p \in Procs |-> NoCall]
    /\ slocal = [p \in Procs |-> <<>>]
    /\ done = <<>>
    /\ ncalls = 0

StoreInit ==
    /\ StoreIdle
    /\ HealthIdle
    /\ SessIdle
    /\ ConflictIdle
    /\ PidIdle
    /\ MarkIdle
    /\ RegIdle
    /\ ModalIdle
    /\ BackoffIdle
    /\ PaneIdle
    /\ WtIdle

\* An instance calls Store.Add or Store.Remove: withLock opens the lock file.
StoreCall(p, call) ==
    /\ spc[p] = "idle"
    /\ ncalls < MaxCalls
    /\ spc' = [spc EXCEPT ![p] = "flock"]
    /\ sop' = [sop EXCEPT ![p] = call]
    /\ ncalls' = ncalls + 1
    /\ UNCHANGED <<file, lock, slocal, done>>
    /\ UNCHANGED <<healthVars, sessVars, conflictVars, pidVars, markVars, extVars>>

\* flockWithTimeout: the non-blocking flock succeeds.
WithLockAcquire(p) ==
    /\ spc[p] = "flock"
    /\ FlockFree(lock)
    /\ lock' = p
    /\ spc' = [spc EXCEPT ![p] = "read"]
    /\ UNCHANGED <<file, sop, slocal, done, ncalls>>
    /\ UNCHANGED <<healthVars, sessVars, conflictVars, pidVars, markVars, extVars>>

\* flockWithTimeout: the deadline passes while another instance holds the
\* lock; withLock returns the error and the call has changed nothing.
WithLockTimeout(p) ==
    /\ spc[p] = "flock"
    /\ ~FlockFree(lock)
    /\ spc' = [spc EXCEPT ![p] = "idle"]
    /\ sop' = [sop EXCEPT ![p] = NoCall]
    /\ UNCHANGED <<file, lock, slocal, done, ncalls>>
    /\ UNCHANGED <<healthVars, sessVars, conflictVars, pidVars, markVars, extVars>>

\* withLock: s.readFile().
WithLockRead(p) ==
    /\ spc[p] = "read"
    /\ slocal' = [slocal EXCEPT ![p] = file]
    /\ spc' = [spc EXCEPT ![p] = "write"]
    /\ UNCHANGED <<file, lock, sop, done, ncalls>>
    /\ UNCHANGED <<healthVars, sessVars, conflictVars, pidVars, markVars, extVars>>

\* withLock: fn(sessions), then s.writeFile(result).
WithLockWrite(p) ==
    /\ spc[p] = "write"
    /\ file' = Transform(sop[p], slocal[p])
    /\ spc' = [spc EXCEPT ![p] = "unlock"]
    /\ UNCHANGED <<lock, sop, slocal, done, ncalls>>
    /\ UNCHANGED <<healthVars, sessVars, conflictVars, pidVars, markVars, extVars>>

\* withLock returns: the deferred LOCK_UN runs.
WithLockRelease(p) ==
    /\ spc[p] = "unlock"
    /\ lock' = IF lock = p THEN NoProc ELSE lock
    /\ done' = Append(done, sop[p])
    /\ spc' = [spc EXCEPT ![p] = "idle"]
    /\ sop' = [sop EXCEPT ![p] = NoCall]
    /\ slocal' = [slocal EXCEPT ![p] = <<>>]
    /\ UNCHANGED <<file, ncalls>>
    /\ UNCHANGED <<healthVars, sessVars, conflictVars, pidVars, markVars, extVars>>

StoreNext ==
    \/ \E p \in Procs, call \in StoreCalls : StoreCall(p, call)
    \/ \E p \in Procs : WithLockAcquire(p)
    \/ \E p \in Procs : WithLockTimeout(p)
    \/ \E p \in Procs : WithLockRead(p)
    \/ \E p \in Procs : WithLockWrite(p)
    \/ \E p \in Procs : WithLockRelease(p)

StoreSpec == StoreInit /\ [][StoreNext]_vars

\* ----------------------------------------- store.go, one caller's calls

\* The metas one instance adds: launched sessions, and a session rebuilt
\* from its tmux name (its short name keeps the provider).
ApiMetas ==
    StoreMetas
    \cup { [NoMeta EXCEPT !.Name = <<"claude", "session", "a1">>,
                          !.TmuxSession =
                              <<sessionPrefix, "claude", "session", "a1">>,
                          !.Provider = "claude"] }

\* tmux's listing: the live names, in tmux's order; one of them has never
\* been in the registry.
ApiLive ==
    { <<>>,
      << <<sessionPrefix, "claude", "session", "a1">> >>,
      << <<sessionPrefix, "claude", "session", "b2">> >>,
      << <<sessionPrefix, "claude", "session", "a1">>,
         <<sessionPrefix, "claude", "session", "b2">> >>,
      << <<sessionPrefix, "claude", "session", "a1">>,
         <<sessionPrefix, "codex", "session", "c3">> >>,
      << <<sessionPrefix, "codex", "session", "c3">> >> }

\* A finished call: its arguments, whether withLock succeeded (ok), what it
\* returned (ret) and the registry it found (before).
ApiCall(kind, name, meta, live, ok, ret) ==
    [kind |-> kind, name |-> name, meta |-> meta, live |-> live, ok |-> ok,
     ret |-> ret, before |-> file]

\* done keeps the last two calls, the latest first.
Latest(call) == IF done = <<>> THEN <<call>> ELSE <<call, done[1]>>

\* Store.Add(meta); withLock fails when another instance holds the lock
\* for five seconds.
ApiAdd(meta, ok) ==
    /\ file' = IF ok THEN StoreAdd(file, meta) ELSE file
    /\ done' = Latest(ApiCall("add", meta.Name, meta, <<>>, ok, <<>>))
    /\ UNCHANGED <<lock, spc, sop, slocal, ncalls>>
    /\ UNCHANGED <<healthVars, sessVars, conflictVars, pidVars, markVars, extVars>>

\* Store.Remove(name)
ApiRemove(name, ok) ==
    /\ file' = IF ok THEN StoreRemove(file, name) ELSE file
    /\ done' = Latest(ApiCall("remove", name, NoMeta, <<>>, ok, <<>>))
    /\ UNCHANGED <<lock, spc, sop, slocal, ncalls>>
    /\ UNCHANGED <<healthVars, sessVars, conflictVars, pidVars, markVars, extVars>>

\* Store.Sync(activeTmux)
ApiSync(activeTmux, ok) ==
    /\ file' = IF ok
               THEN StoreSync(file, { activeTmux[i] : i \in 1..Len(activeTmux) })
               ELSE file
    /\ done' = Latest(ApiCall("sync", <<>>, NoMeta, activeTmux, ok, <<>>))
    /\ UNCHANGED <<lock, spc, sop, slocal, ncalls>>
    /\ UNCHANGED <<healthVars, sessVars, conflictVars, pidVars, markVars, extVars>>

\* Store.Discover(liveTmuxNames): List (which writes back what it read),
\* nil when List fails.
ApiDiscover(liveTmuxNames, ok) ==
    /\ file' = file
    /\ done' = Latest(ApiCall("discover", <<>>, NoMeta, liveTmuxNames, ok,
                              IF ok THEN StoreDiscover(file, liveTmuxNames)
                              ELSE <<>>))
    /\ UNCHANGED <<lock, spc, sop, slocal, ncalls>>
    /\ UNCHANGED <<healthVars, sessVars, conflictVars, pidVars, markVars, extVars>>

StoreApiNext ==
    \/ \E m \in ApiMetas, ok \in BOOLEAN : ApiAdd(m, ok)
    \/ \E m \in ApiMetas, ok \in BOOLEAN : ApiRemove(m.Name, ok)
    \/ \E l \in ApiLive, ok \in BOOLEAN : ApiSync(l, ok)
    \/ \E l \in ApiLive, ok \in BOOLEAN : ApiDiscover(l, ok)

StoreApiSpec == StoreInit /\ [][StoreApiNext]_vars

\* ------------------------------------------------------ error_patterns.go

SeverityRecoverable == "recoverable"
SeverityFatal == "fatal"

\* DefaultPatterns(), in registry order.  A captured text is a sequence of
\* lines; Lines is the set of lines of the model's vocabulary that the
\* pattern's regular expression matches, and Anchored says that the
\* expression starts with ^ (without the m flag: the start of the text).
DefaultPatterns ==
    << [Provider |-> "claude", Lines |-> {"API Error: 500", "API Error: 529"},
        Anchored |-> FALSE, Severity |-> SeverityRecoverable,
        RecoveryMessage |-> "retry-5xx", RequiresBackoff |-> FALSE],
       [Provider |-> "claude", Lines |-> {"API Error: 529"},
        Anchored |-> FALSE, Severity |-> SeverityRecoverable,
        RecoveryMessage |-> "retry-overloaded", RequiresBackoff |-> TRUE],
       [Provider |-> "claude", Lines |-> {"API Error: 429"},
        Anchored |-> FALSE, Severity |-> SeverityRecoverable,
        RecoveryMessage |-> "retry-rate-limit", RequiresBackoff |-> TRUE],
       [Provider |-> "claude", Lines |-> {"Connection refused"},
        Anchored |-> FALSE, Severity |-> SeverityRecoverable,
        RecoveryMessage |-> "retry-refused", RequiresBackoff |-> TRUE],
       [Provider |-> "claude", Lines |-> {"request timed out"},
        Anchored |-> FALSE, Severity |-> SeverityRecoverable,
        RecoveryMessage |-> "retry-timeout", RequiresBackoff |-> TRUE],
       [Provider |-> "codex", Lines |-> {"OpenAI API error"},
        Anchored |-> FALSE, Severity |-> SeverityRecoverable,
        RecoveryMessage |-> "retry-openai", RequiresBackoff |-> FALSE],
       [Provider |-> "codex", Lines |-> {"Rate limit exceeded"},
        Anchored |-> FALSE, Severity |-> SeverityRecoverable,
        RecoveryMessage |-> "retry-codex-rate", RequiresBackoff |-> TRUE],
       [Provider |-> "gemini", Lines |-> {"RESOURCE_EXHAUSTED"},
        Anchored |-> FALSE, Severity |-> SeverityRecoverable,
        RecoveryMessage |-> "retry-exhausted", RequiresBackoff |-> TRUE],
       [Provider |-> "gemini", Lines |-> {"Internal Server Error"},
        Anchored |-> FALSE, Severity |-> SeverityRecoverable,
        RecoveryMessage |-> "retry-internal", RequiresBackoff |-> FALSE],
       [Provider |-> "*", Lines |-> {"panic: runtime error"},
        Anchored |-> TRUE, Severity |-> SeverityFatal,
        RecoveryMessage |-> "", RequiresBackoff |-> FALSE],
       [Provider |-> "*", Lines |-> {"fatal error: all goroutines are asleep"},
        Anchored |-> TRUE, Severity |-> SeverityFatal,
        RecoveryMessage |-> "", RequiresBackoff |-> FALSE] >>

\* p.Regex.MatchString(output) for a text given as its lines.
RegexMatch(p, text) ==
    IF p.Anchored
    THEN text # <<>> /\ text[1] \in p.Lines
    ELSE \E i \in 1..Len(text) : text[i] \in p.Lines

\* Mutant of MatchIn: the provider filter is not applied.
MatchInAnyProvider(patterns, provider, text) ==
    LET hits == { i \in 1..Len(patterns) : RegexMatch(patterns[i], text) }
    IN  IF hits = {} THEN 0
        ELSE CHOOSE i \in hits : \A j \in hits : i <= j

\* ErrorPatternRegistry.Match: the index of the first pattern for the
\* provider (or "*") whose expression matches; 0 stands for nil.
MatchIn(patterns, provider, text) ==
    LET hits == { i \in 1..Len(patterns) :
                    /\ patterns[i].Provider \in {"*", provider}
                    /\ RegexMatch(patterns[i], text) }
    IN  IF hits = {} THEN 0
        ELSE CHOOSE i \in hits : \A j \in hits : i <= j

\* Match on the registry NewErrorPatternRegistry builds.
Match(provider, text) == MatchIn(DefaultPatterns, provider, text)

\* ------------------------------------------- error_patterns.go, its calls

\* The patterns add-pattern is called with: one for a provider of its own,
\* and a universal one for a line a built-in pattern matches as well.
CustomPatterns ==
    { [Provider |-> "custom", Lines |-> {"CUSTOM_ERROR"},
       Anchored |-> FALSE, Severity |-> SeverityRecoverable,
       RecoveryMessage |-> "Custom recovery", RequiresBackoff |-> FALSE],
      [Provider |-> "*", Lines |-> {"API Error: 500", "CUSTOM_ERROR"},
       Anchored |-> FALSE, Severity |-> SeverityFatal,
       RecoveryMessage |-> "", RequiresBackoff |-> FALSE] }

MatchProviders == {"claude", "codex", "custom", ""}

MatchLines ==
    {"API Error: 500", "API Error: 529", "OpenAI API error",
     "panic: runtime error", "CUSTOM_ERROR", "All good"}

\* The texts match is called with: one or two lines.
MatchTexts ==
    { <<a>> : a \in MatchLines } \cup { <<a, b>> : a, b \in MatchLines }

NoRegCall == [op |-> "none", provider |-> "", text |-> <<>>, ret |-> 0]

\* NewErrorPatternRegistry()
RegInit ==
    /\ reg = DefaultPatterns
    /\ rcall = NoRegCall
    /\ StoreIdle
    /\ HealthIdle
    /\ SessIdle
    /\ ConflictIdle
    /\ PidIdle
    /\ MarkIdle
    /\ ModalIdle
    /\ BackoffIdle
    /\ PaneIdle
    /\ WtIdle

\* ErrorPatternRegistry.AddPattern(p); each custom pattern is added once.
AddPattern(p) ==
    /\ \A i \in 1..Len(reg) : reg[i] # p
    /\ reg' = Append(reg, p)
    /\ rcall' = [NoRegCall EXCEPT !.op = "add"]
    /\ UNCHANGED <<storeVars, healthVars, sessVars, conflictVars, pidVars,
                   markVars, modalVars,
                   backoffVars,
                   paneVars,
                   wtVars>>

\* ErrorPatternRegistry.Match(provider, output)
RegMatch(provider, text) ==
    /\ rcall' = [op |-> "match", provider |-> provider, text |-> text,
                 ret |-> MatchIn(reg, provider, text)]
    /\ UNCHANGED reg
    /\ UNCHANGED <<storeVars, healthVars, sessVars, conflictVars, pidVars,
                   markVars, modalVars,
                   backoffVars,
                   paneVars,
                   wtVars>>

RegNext ==
    \/ \E p \in CustomPatterns : AddPattern(p)
    \/ \E p \in MatchProviders, t \in MatchTexts : RegMatch(p, t)

RegSpec == RegInit /\ [][RegNext]_vars

\* ------------------------------------------------------ health_monitor.go

HealthHealthy == "healthy"
HealthErrorDetected == "error_detected"
HealthRecovering == "recovering"
HealthFailed == "failed"

\* CheckOutput scans lastNLines(output, 10).
TailLines == 10
\* AttemptRecovery's backoffBase, in seconds.
BackoffBase == 30

\* lastNLines(s, n)
lastNLines(s, n) ==
    IF Len(s) <= n THEN s ELSE SubSeq(s, Len(s) - n + 1, Len(s))

\* A SessionHealth as getOrCreate makes it; Tracked = FALSE stands for a
\* name that is not a key of hm.sessions.
NewHealth(provider) ==
    [Tracked |-> TRUE, Provider |-> provider, Status |-> HealthHealthy,
     LastErrorAt |-> 0, MatchedPattern |-> 0, RecoveryCount |-> 0,
     LastRecoveryAt |-> 0, BackoffUntil |-> 0, LastOutput |-> <<>>]

NoHealth == [NewHealth("") EXCEPT !.Tracked = FALSE]

\* HealthMonitor.getOrCreate
getOrCreate(sh, provider) == IF sh.Tracked THEN sh ELSE NewHealth(provider)

\* Mutant of RetriesExhausted: the session is given up one attempt early.
RetriesExhaustedEarly(count, maxRetries) == count + 1 >= maxRetries

\* Mutant of RetriesExhausted: the cap is tested one attempt too late.
RetriesExhaustedLate(count, maxRetries) == count > maxRetries

\* HealthMonitor.shouldRecover's test
RetriesExhausted(count, maxRetries) == count >= maxRetries

\* Mutant of InjectAllowed: the attached flag is ignored.
InjectAlways(isAttached) == TRUE

\* CheckOutput's "if isAttached { return false }" in front of both calls of
\* shouldRecover: input is injected only into a pane nobody is attached to.
InjectAllowed(isAttached) == ~isAttached

\* Mutant of StatusAfterRecovery: failed one attempt before the cap.
StatusAfterRecoveryEarly(count, maxRetries) ==
    IF count + 1 >= maxRetries THEN HealthFailed ELSE HealthRecovering

\* Mutant of StatusAfterRecovery: the retry cap is not looked at.
StatusAfterRecoveryNoCap(count, maxRetries) == HealthRecovering

\* AttemptRecovery: recovering, or failed once the count has reached the cap.
StatusAfterRecovery(count, maxRetries) ==
    IF count >= maxRetries THEN HealthFailed ELSE HealthRecovering

\* Mutant of Debouncing: the debounce window is not looked at.
DebouncingNever(t, lastErrorAt, debounceSeconds) == FALSE

\* CheckOutput in error_detected: now.Sub(sh.LastErrorAt) < debounce.
Debouncing(t, lastErrorAt, debounceSeconds) ==
    t - lastErrorAt < debounceSeconds

\* Mutant of InBackoff: the backoff is not looked at.
InBackoffNever(t, backoffUntil) == FALSE

\* CheckOutput in recovering: now.Before(sh.BackoffUntil).
InBackoff(t, backoffUntil) == t < backoffUntil

\* HealthMonitor.shouldRecover: the state it leaves and what it returns.
shouldRecover(sh, cfg) ==
    IF RetriesExhausted(sh.RecoveryCount, cfg.MaxRetries)
    THEN [sh |-> [sh EXCEPT !.Status = HealthFailed], ret |-> FALSE]
    ELSE [sh |-> sh, ret |-> TRUE]

\* HealthMonitor.CheckOutput on the session's entry sh0 at time t: the
\* entry it leaves and the value it returns.
CheckOutput(sh0, cfg, provider, output, isAttached, t) ==
    IF ~cfg.Enabled THEN [sh |-> sh0, ret |-> FALSE]
    ELSE
    LET sh == getOrCreate(sh0, provider)
        match == Match(provider, lastNLines(output, TailLines))
    IN
    IF sh.Status = HealthFailed THEN [sh |-> sh, ret |-> FALSE]
    ELSE IF match = 0 THEN
        [sh |-> IF sh.Status \in {HealthErrorDetected, HealthRecovering}
                THEN [sh EXCEPT !.Status = HealthHealthy, !.RecoveryCount = 0,
                                !.MatchedPattern = 0, !.LastOutput = output]
                ELSE [sh EXCEPT !.LastOutput = output],
         ret |-> FALSE]
    ELSE IF DefaultPatterns[match].Severity = SeverityFatal THEN
        [sh |-> [sh EXCEPT !.Status = HealthFailed, !.MatchedPattern = match,
                           !.LastErrorAt = t],
         ret |-> FALSE]
    ELSE IF sh.Status = HealthHealthy THEN
        [sh |-> [sh EXCEPT !.Status = HealthErrorDetected, !.LastErrorAt = t,
                           !.MatchedPattern = match, !.LastOutput = output],
         ret |-> FALSE]
    ELSE IF sh.Status = HealthErrorDetected THEN
        IF Debouncing(t, sh.LastErrorAt, cfg.DebounceSeconds)
        THEN [sh |-> sh, ret |-> FALSE]
        ELSE IF output # sh.LastOutput
        THEN [sh |-> [sh EXCEPT !.LastErrorAt = t, !.LastOutput = output],
              ret |-> FALSE]
        ELSE IF ~InjectAllowed(isAttached) THEN [sh |-> sh, ret |-> FALSE]
        ELSE shouldRecover(sh, cfg)
    ELSE \* HealthRecovering
        IF InBackoff(t, sh.BackoffUntil) THEN [sh |-> sh, ret |-> FALSE]
        ELSE IF output = sh.LastOutput
        THEN IF ~InjectAllowed(isAttached) THEN [sh |-> sh, ret |-> FALSE]
             ELSE shouldRecover(sh, cfg)
        ELSE [sh |-> [sh EXCEPT !.Status = HealthErrorDetected,
                                !.LastErrorAt = t, !.LastOutput = output],
              ret |-> FALSE]

RECURSIVE BackoffAfter(_, _)
\* AttemptRecovery's loop: backoffBase * multiplier^(count - 1).
BackoffAfter(count, multiplier) ==
    IF count <= 1 THEN BackoffBase
    ELSE multiplier * BackoffAfter(count - 1, multiplier)

\* Mutant of AttemptRecovery: a send that failed is counted as a retry.
AttemptRecoveryCountsFailure(sh, cfg, sendOk, t) ==
    IF ~sh.Tracked \/ sh.MatchedPattern = 0 THEN [sh |-> sh, sent |-> FALSE]
    ELSE IF DefaultPatterns[sh.MatchedPattern].RecoveryMessage = ""
    THEN [sh |-> sh, sent |-> FALSE]
    ELSE
    LET count == sh.RecoveryCount + 1
        multiplier == IF cfg.BackoffMultiplier < 1 THEN 2
                      ELSE cfg.BackoffMultiplier
    IN  [sh |-> [sh EXCEPT !.RecoveryCount = count,
                           !.LastRecoveryAt = t,
                           !.BackoffUntil = t + BackoffAfter(count, multiplier),
                           !.Status =
                               StatusAfterRecovery(count, cfg.MaxRetries)],
         sent |-> sendOk]

\* HealthMonitor.AttemptRecovery at time t; sendOk is whether
\* TmuxManager.SendKeys succeeds.  sent says a message reached the pane.
AttemptRecovery(sh, cfg, sendOk, t) ==
    IF ~sh.Tracked \/ sh.MatchedPattern = 0 THEN [sh |-> sh, sent |-> FALSE]
    ELSE IF DefaultPatterns[sh.MatchedPattern].RecoveryMessage = ""
    THEN [sh |-> sh, sent |-> FALSE]
    ELSE IF ~sendOk THEN [sh |-> sh, sent |-> FALSE]
    ELSE
    LET count == sh.RecoveryCount + 1
        multiplier == IF cfg.BackoffMultiplier < 1 THEN 2
                      ELSE cfg.BackoffMultiplier
    IN  [sh |-> [sh EXCEPT !.RecoveryCount = count,
                           !.LastRecoveryAt = t,
                           !.BackoffUntil = t + BackoffAfter(count, multiplier),
                           !.Status =
                               StatusAfterRecovery(count, cfg.MaxRetries)],
         sent |-> TRUE]

\* ------------------------------- health_monitor.go, time.Duration arithmetic

\* A time.Duration is an int64 count of nanoseconds.  It is held as its
\* bytes, lowest first: IntBytes of them, in two's complement.  WideBytes
\* bytes hold every product formed here without loss.
ByteBase == 256
IntBytes == 8
WideBytes == 16
NanosPerSecond == 1000000000

RECURSIVE ToBytes(_, _)
\* The w lowest bytes of n >= 0.
ToBytes(n, w) ==
    IF w = 0 THEN <<>>
    ELSE <<n % ByteBase>> \o ToBytes(n \div ByteBase, w - 1)

\* a + b + carry on numbers of equal length; the carry out is dropped.
\* x and y are the operands, evaluated once.
AddBytes(a, b, carry) ==
    CHOOSE sum \in
        { LET c[i \in 0..Len(x)] ==
                  IF i = 0 THEN carry
                  ELSE (x[i] + y[i] + c[i - 1]) \div ByteBase
          IN  [i \in 1..Len(x) |-> (x[i] + y[i] + c[i - 1]) % ByteBase]
          : x \in {a}, y \in {b} } : TRUE

\* a * b in Len(a) bytes, for Len(b) >= Len(a): the product modulo
\* ByteBase^Len(a), which is what Go's * gives on an integer of that
\* width.  p(k) is the sum of the byte products of weight k.
\* x and y are the operands, evaluated once.
MulBytes(a, b) ==
    CHOOSE product \in
        { LET p(k) == LET ps[i \in 0..k] ==
                              IF i = 0 THEN 0
                              ELSE ps[i - 1] + x[i] * y[k + 1 - i]
                      IN  ps[k]
              c[k \in 0..Len(x)] ==
                  IF k = 0 THEN 0 ELSE (p(k) + c[k - 1]) \div ByteBase
          IN  [k \in 1..Len(x) |-> (p(k) + c[k - 1]) % ByteBase]
          : x \in {a}, y \in {b} } : TRUE

\* The value of a two's complement number in w >= Len(x) bytes.
SignExtend(x, w) ==
    x \o [i \in 1..(w - Len(x)) |->
             IF x[Len(x)] >= ByteBase \div 2 THEN ByteBase - 1 ELSE 0]

\* AttemptRecovery: "if multiplier < 1 { multiplier = 2 }".
EffectiveMultiplier(multiplier) == IF multiplier < 1 THEN 2 ELSE multiplier

RECURSIVE BackoffNanos(_, _, _)
\* AttemptRecovery's loop on a Duration of w bytes: backoffBase, then
\* "backoff *= time.Duration(multiplier)" count - 1 times.
BackoffNanos(count, multiplier, w) ==
    IF count <= 1
    THEN MulBytes(ToBytes(BackoffBase, w), ToBytes(NanosPerSecond, w))
    ELSE MulBytes(BackoffNanos(count - 1, multiplier, w),
                  ToBytes(EffectiveMultiplier(multiplier), w))

\* time.Time.Add: the instant at seconds plus d nanoseconds, as a count of
\* nanoseconds in WideBytes bytes.
TimeAdd(at, d) ==
    AddBytes(MulBytes(ToBytes(at, WideBytes),
                      ToBytes(NanosPerSecond, WideBytes)),
             SignExtend(d, WideBytes), 0)

\* The multipliers error_recovery.backoff_multiplier is given.
BackoffMultipliers == {-1, 0, 1, 2, 3, 10, 1000, NanosPerSecond}

\* The recovery counts explored.
MaxBackoffCount == 4

BackoffInit ==
    /\ bk \in [count : 1..MaxBackoffCount, multiplier : BackoffMultipliers,
                at : {0, TickSeconds, 2 * TickSeconds},
                done : {FALSE}, backoff : {<<>>}, until : {<<>>}]
    /\ StoreIdle
    /\ HealthIdle
    /\ SessIdle
    /\ ConflictIdle
    /\ PidIdle
    /\ MarkIdle
    /\ RegIdle
    /\ ModalIdle
    /\ PaneIdle
    /\ WtIdle

\* AttemptRecovery from "sh.LastRecoveryAt = time.Now()" to
\* "sh.BackoffUntil = sh.LastRecoveryAt.Add(backoff)", for the recovery
\* count it has just reached.
BackoffStep ==
    /\ ~bk.done
    /\ LET d == BackoffNanos(bk.count, bk.multiplier, IntBytes)
       IN  bk' = [bk EXCEPT !.done = TRUE, !.backoff = d,
                            !.until = TimeAdd(bk.at, d)]
    /\ UNCHANGED <<storeVars, healthVars, sessVars, conflictVars, pidVars,
                   markVars, regVars, modalVars,
                   paneVars,
                   wtVars>>

BackoffNext == BackoffStep

BackoffSpec == BackoffInit /\ [][BackoffNext]_vars

\* Mutant of ResetSession: the retry count survives the reset.
ResetSessionKeepsCount(sh) ==
    IF sh.Tracked
    THEN [sh EXCEPT !.Status = HealthHealthy, !.MatchedPattern = 0,
                    !.BackoffUntil = 0]
    ELSE sh

\* HealthMonitor.ResetSession
ResetSession(sh) ==
    IF sh.Tracked
    THEN [sh EXCEPT !.Status = HealthHealthy, !.RecoveryCount = 0,
                    !.MatchedPattern = 0, !.BackoffUntil = 0]
    ELSE sh

\* ----------------------------------------------- health monitor, driven

HealthNames == {"claude-session-a1"}

HealthProviders == {"claude"}

\* The pane captures the monitor is fed.  The last one starts with a panic
\* and also holds a 5xx line: Match returns the 5xx pattern, which comes
\* first in the registry.
HealthCaptures ==
    { <<"All good">>,
      <<"Some output", "API Error: 500", "more text">>,
      <<"API Error: 500">>,
      <<"panic: runtime error">>,
      <<"panic: runtime error", "API Error: 500">> }

\* The error_recovery settings explored: the monitor switched off, and
\* switched on with every retry cap up to MaxRetriesTop, without debounce
\* (as in the tests) and with a debounce of one clock step.
HealthConfigs ==
    { [Enabled |-> FALSE, MaxRetries |-> MaxRetriesTop, DebounceSeconds |-> 0,
       BackoffMultiplier |-> 2] }
    \cup
    { [Enabled |-> TRUE, MaxRetries |-> r, DebounceSeconds |-> d,
       BackoffMultiplier |-> 2]
      : r \in 0..MaxRetriesTop, d \in {0, TickSeconds} }

\* The last call: its arguments (output is the capture), what it returned,
\* and match, the pattern that registry.Match found in the scanned text (0
\* for none, or no scan).
NoHealthCall ==
    [op |-> "none", name |-> "", attached |-> FALSE, ret |-> FALSE,
     sent |-> FALSE, match |-> 0, output |-> <<>>]

HealthInit ==
    /\ hsess = [n \in HealthNames |-> NoHealth]
    /\ hcfg \in HealthConfigs
    /\ now = 0
    /\ hlast = NoHealthCall
    /\ hsent = [n \in HealthNames |-> 0]
    /\ StoreIdle
    /\ SessIdle
    /\ ConflictIdle
    /\ PidIdle
    /\ MarkIdle
    /\ RegIdle
    /\ ModalIdle
    /\ BackoffIdle
    /\ PaneIdle
    /\ WtIdle

\* A capture that zeroes RecoveryCount in the sense of the retry budget: it
\* creates the entry, or it is processed (monitor enabled, entry not failed)
\* and matches no pattern.
ZeroingCapture(sh0, provider, output) ==
    /\ hcfg.Enabled
    /\ \/ ~sh0.Tracked
       \/ /\ sh0.Status # HealthFailed
          /\ Match(provider, lastNLines(output, TailLines)) = 0

\* The pattern CheckOutput's scan finds: it scans only when the monitor is
\* enabled and the session is not failed.
Scanned(sh0, cfg, provider, output) ==
    IF ~cfg.Enabled \/ getOrCreate(sh0, provider).Status = HealthFailed
    THEN 0
    ELSE Match(provider, lastNLines(output, TailLines))

\* HealthMonitor.CheckOutput called on its own.
HCheckOutput(n, provider, output, isAttached) ==
    LET r == CheckOutput(hsess[n], hcfg, provider, output, isAttached, now)
    IN  /\ hsess' = [hsess EXCEPT ![n] = r.sh]
        /\ hlast' = [op |-> "check", name |-> n, attached |-> isAttached,
                     ret |-> r.ret, sent |-> FALSE,
                     match |-> Scanned(hsess[n], hcfg, provider, output),
                     output |-> output]
        /\ hsent' = [hsent EXCEPT ![n] =
                        IF ZeroingCapture(hsess[n], provider, output)
                        THEN 0 ELSE @]
        /\ UNCHANGED <<hcfg, now, storeVars, sessVars, conflictVars, pidVars, markVars, extVars>>

\* HealthMonitor.AttemptRecovery called on its own.
HAttemptRecovery(n, sendOk) ==
    LET r == AttemptRecovery(hsess[n], hcfg, sendOk, now)
    IN  /\ hsess' = [hsess EXCEPT ![n] = r.sh]
        /\ hlast' = [op |-> "recover", name |-> n, attached |-> FALSE,
                     ret |-> FALSE, sent |-> r.sent, match |-> 0,
                     output |-> <<>>]
        /\ hsent' = [hsent EXCEPT ![n] = IF r.sent THEN @ + 1 ELSE @]
        /\ hsess[n].RecoveryCount <= MaxRetriesTop
        /\ UNCHANGED <<hcfg, now, storeVars, sessVars, conflictVars, pidVars, markVars, extVars>>

\* HealthMonitor.ResetSession called on its own.
HResetSession(n) ==
    /\ hsess' = [hsess EXCEPT ![n] = ResetSession(@)]
    /\ hlast' = [op |-> "reset", name |-> n, attached |-> FALSE,
                 ret |-> FALSE, sent |-> FALSE, match |-> 0,
                 output |-> <<>>]
    /\ hsent' = [hsent EXCEPT ![n] = IF hsess[n].Tracked THEN 0 ELSE @]
    /\ UNCHANGED <<hcfg, now, storeVars, sessVars, conflictVars, pidVars, markVars, extVars>>

\* Model.Update, case captureMsg, on the health monitor: CheckOutput, then
\* AttemptRecovery when it returned true (the error AttemptRecovery returns
\* is dropped).
CaptureMsgStep(n, provider, output, isAttached, sendOk) ==
    LET c == CheckOutput(hsess[n], hcfg, provider, output, isAttached, now)
        r == IF c.ret THEN AttemptRecovery(c.sh, hcfg, sendOk, now)
             ELSE [sh |-> c.sh, sent |-> FALSE]
        zeroed == IF ZeroingCapture(hsess[n], provider, output)
                  THEN 0 ELSE hsent[n]
    IN  /\ hsess' = [hsess EXCEPT ![n] = r.sh]
        /\ hlast' = [op |-> "capture", name |-> n, attached |-> isAttached,
                     ret |-> c.ret, sent |-> r.sent,
                     match |-> Scanned(hsess[n], hcfg, provider, output),
                     output |-> output]
        /\ hsent' = [hsent EXCEPT ![n] = IF r.sent THEN zeroed + 1 ELSE zeroed]

\* Model.Update, case captureMsg, for a message with a name and an output.
HCaptureMsg(n, provider, output, isAttached, sendOk) ==
    /\ CaptureMsgStep(n, provider, output, isAttached, sendOk)
    /\ UNCHANGED <<hcfg, now, storeVars, sessVars, conflictVars, pidVars, markVars, extVars>>

\* Model.Update, key "r" on a failed session: ResetSession.
HResetKey(n) ==
    /\ hsess[n].Tracked
    /\ hsess[n].Status = HealthFailed
    /\ HResetSession(n)

\* Time passes.
HTick(d) ==
    /\ now + d <= MaxNow
    /\ now' = now + d
    /\ hlast' = [NoHealthCall EXCEPT !.op = "tick"]
    /\ UNCHANGED <<hsess, hcfg, hsent, storeVars, sessVars, conflictVars, pidVars, markVars, extVars>>

TickSteps == {TickSeconds}

\* The monitor as the UI drives it.
HealthNext ==
    \/ \E n \in HealthNames, p \in HealthProviders, o \in HealthCaptures,
          a \in BOOLEAN, ok \in BOOLEAN : HCaptureMsg(n, p, o, a, ok)
    \/ \E n \in HealthNames : HResetKey(n)
    \/ \E d \in TickSteps : HTick(d)

HealthSpec == HealthInit /\ [][HealthNext]_vars

\* The monitor under any sequence of calls of its exported methods.
HealthApiNext ==
    \/ \E n \in HealthNames, p \in HealthProviders, o \in HealthCaptures,
          a \in BOOLEAN : HCheckOutput(n, p, o, a)
    \/ \E n \in HealthNames, ok \in BOOLEAN : HAttemptRecovery(n, ok)
    \/ \E n \in HealthNames : HResetSession(n)
    \/ \E d \in TickSteps : HTick(d)

HealthApiSpec == HealthInit /\ [][HealthApiNext]_vars

\* ------------------------------------------------------------------ tmux.go

\* The i-th generated session id, "session-<timestamp>-<random>": ids are
\* fresh, and a later one sorts after an earlier one.
SessionID(k) == <<"session", ToString(k)>>

\* strings.HasPrefix(name, sessionPrefix)
HasPrefix(name) == name # <<>> /\ Head(name) = sessionPrefix

ensurePrefix(name) ==
    IF HasPrefix(name) THEN name ELSE <<sessionPrefix>> \o name

\* strings.TrimPrefix(name, sessionPrefix)
TrimPrefix(name) == IF HasPrefix(name) THEN Tail(name) ELSE name

FullSessionName(provider, name) ==
    IF provider # "" THEN <<sessionPrefix, provider>> \o name
    ELSE <<sessionPrefix>> \o name

\* The text before the first "-" of the unprefixed name, "" without a "-".
ParseSessionProvider(tmuxName) ==
    LET name == TrimPrefix(tmuxName)
    IN  IF Len(name) >= 2 THEN name[1] ELSE ""

\* strings.Contains(name, id)
Contains(name, id) ==
    \E i \in 1..(Len(name) - Len(id) + 1) :
        SubSeq(name, i, i + Len(id) - 1) = id

\* The order of the pieces of a name as strings: digits before letters.
WordOrder == <<"claude", "codex", "session", sessionPrefix>>

TokenRank(tok) ==
    IF \E i \in DOMAIN WordOrder : WordOrder[i] = tok
    THEN MaxLaunches + 1 + (CHOOSE i \in DOMAIN WordOrder : WordOrder[i] = tok)
    ELSE CHOOSE k \in 1..(MaxLaunches + 1) : ToString(k) = tok

RECURSIVE NameLess(_, _)
\* a < b as strings.
NameLess(a, b) ==
    IF a = <<>> THEN b # <<>>
    ELSE IF b = <<>> THEN FALSE
    ELSE IF Head(a) = Head(b) THEN NameLess(Tail(a), Tail(b))
    ELSE TokenRank(Head(a)) < TokenRank(Head(b))

RECURSIVE SortNames(_)
SortNames(S) ==
    IF S = {} THEN <<>>
    ELSE LET m == CHOOSE x \in S : \A y \in S \ {x} : NameLess(x, y)
         IN  <<m>> \o SortNames(S \ {m})

MuxNames(m) == { s.Name : s \in m }

\* TmuxManager.ListSessions: the names of the prefixed sessions, in tmux's
\* (alphabetical) order.
ListSessions(m) == SortNames({ n \in MuxNames(m) : HasPrefix(n) })

HasSession(m, name) == ensurePrefix(name) \in MuxNames(m)

\* TmuxManager.KillSession's effect; it returns an error iff ~HasSession.
KillSession(m, name) == { s \in m : s.Name # ensurePrefix(name) }

\* TmuxManager.CreateSessionWithOpts: a session of the same name is killed
\* first.
CreateSessionWithOpts(m, provider, name, workDir) ==
    LET fullName == FullSessionName(provider, name)
    IN  { s \in m : s.Name # fullName }
            \cup { [Name |-> fullName, WorkDir |-> workDir] }

\* TmuxManager.FindSessionBySessionID: the first listed session whose name
\* contains the id, or "".
FindSessionBySessionID(m, sessionID) ==
    LET l == ListSessions(m)
        hits == { i \in 1..Len(l) : Contains(l[i], sessionID) }
    IN  IF hits = {} THEN <<>>
        ELSE l[CHOOSE i \in hits : \A j \in hits : i <= j]

\* TmuxManager.GetPaneWorkDir: "" when tmux fails.
GetPaneWorkDir(m, name) ==
    IF HasSession(m, name)
    THEN (CHOOSE s \in m : s.Name = ensurePrefix(name)).WorkDir
    ELSE <<>>

\* -------------------------------------------------------------- conflict.go

NoConflict == "none"
ActiveConflict == "active"
StaleConflict == "stale"
ExternalConflict == "external"

\* A marker file is the sequence of its lines; a line "key=value" is
\* [key, val], a line without "=" has the key "".  An absent file and an
\* empty one are both <<>>.
NoFile == <<>>

\* Mutant of SessionFileContent: the agent kind is stored with the id.
SessionFileContentWithProvider(sessionID) ==
    << [key |-> "", val |-> sessionID], [key |-> "provider", val |-> "codex"] >>

\* WriteSessionFile's contents: the bare session id.
SessionFileContent(sessionID) == << [key |-> "", val |-> sessionID] >>

RECURSIVE LastValue(_, _, _, _)
\* The value of the last line "key=value" with a non-empty value.
LastValue(lines, key, empty, default) ==
    IF lines = <<>> THEN default
    ELSE LastValue(Tail(lines), key, empty,
                   IF Head(lines).key = key /\ Head(lines).val # empty
                   THEN Head(lines).val ELSE default)

parseSessionFile(content) ==
    LET first == Head(content)
        valid == /\ first.key = ""
                 /\ Len(first.val) >= 2
                 /\ Head(first.val) = "session"
    IN  IF ~valid
        THEN [sessionID |-> <<>>, provider |-> "claude", tmuxSession |-> <<>>]
        ELSE [sessionID |-> first.val,
              provider |-> LastValue(Tail(content), "provider", "", "claude"),
              tmuxSession |->
                  LastValue(Tail(content), "tmux_session", <<>>, <<>>)]

readSessionFileID(content) ==
    IF content = NoFile
    THEN [sessionID |-> <<>>, provider |-> "", tmuxSession |-> <<>>]
    ELSE parseSessionFile(content)

NoConflictResult ==
    [Status |-> NoConflict, SessionID |-> <<>>, Provider |-> "",
     TmuxSession |-> <<>>]

\* CheckConflict's classification of a valid marker.
ConflictStatus(tmuxSession, hasTmux, m) ==
    IF tmuxSession # <<>> /\ hasTmux /\ HasSession(m, tmuxSession)
    THEN ActiveConflict
    ELSE StaleConflict

\* CheckConflict on the marker's contents; hasTmux is tmux != nil and m the
\* sessions that tmux would report.
CheckConflict(content, hasTmux, m) ==
    IF content = NoFile THEN NoConflictResult
    ELSE LET p == parseSessionFile(content)
             found == IF p.tmuxSession = <<>> /\ hasTmux
                      THEN FindSessionBySessionID(m, p.sessionID)
                      ELSE <<>>
             tmuxSession == IF found # <<>> THEN found ELSE p.tmuxSession
         IN  IF p.sessionID = <<>> THEN NoConflictResult
             ELSE [Status |-> ConflictStatus(tmuxSession, hasTmux, m),
                   SessionID |-> p.sessionID,
                   Provider |-> IF found # <<>> /\ Len(TrimPrefix(found)) >= 2
                                THEN ParseSessionProvider(found)
                                ELSE p.provider,
                   TmuxSession |-> tmuxSession]

WriteSessionFileIfNeeded(content, sessionID) ==
    IF readSessionFileID(content).sessionID = sessionID THEN content
    ELSE SessionFileContent(sessionID)

\* The marker files a conflict check is tried on.
ConflictContents ==
    { NoFile,
      SessionFileContent(SessionID(1)),
      SessionFileContent(SessionID(2)),
      SessionFileContent(<<"claude", "session", ToString(1)>>),
      << [key |-> "provider", val |-> "codex"] >>,
      SessionFileContent(SessionID(1))
          \o << [key |-> "provider", val |-> "codex"] >>,
      SessionFileContent(SessionID(1))
          \o << [key |-> "tmux_session",
                 val |-> FullSessionName("claude", SessionID(1))] >>,
      SessionFileContent(SessionID(2))
          \o << [key |-> "tmux_session",
                 val |-> FullSessionName("claude", SessionID(1))] >>,
      SessionFileContent(SessionID(1))
          \o << [key |-> "tmux_session", val |-> <<>>],
                [key |-> "provider", val |-> "codex"] >> }

\* The sessions tmux may be running during a check.
ConflictSessions ==
    { [Name |-> FullSessionName("claude", SessionID(1)), WorkDir |-> <<"repo">>],
      [Name |-> FullSessionName("codex", SessionID(1)), WorkDir |-> <<"wt">>],
      [Name |-> FullSessionName("claude", SessionID(2)), WorkDir |-> <<"repo">>],
      [Name |-> <<"other">>, WorkDir |-> <<"repo">>] }

NoCheck == [content |-> NoFile, hasTmux |-> FALSE, m |-> {}]

ConflictInit ==
    /\ cin = NoCheck
    /\ cres = NoConflictResult
    /\ StoreIdle
    /\ HealthIdle
    /\ SessIdle
    /\ PidIdle
    /\ MarkIdle
    /\ RegIdle
    /\ ModalIdle
    /\ BackoffIdle
    /\ PaneIdle
    /\ WtIdle

\* One call of CheckConflict.
CheckCmd(content, hasTmux, m) ==
    /\ cin' = [content |-> content, hasTmux |-> hasTmux, m |-> m]
    /\ cres' = CheckConflict(content, hasTmux, m)
    /\ UNCHANGED <<storeVars, healthVars, sessVars, pidVars, markVars, extVars>>

ConflictNext ==
    \E content \in ConflictContents, hasTmux \in BOOLEAN,
       m \in SUBSET ConflictSessions : CheckCmd(content, hasTmux, m)

ConflictSpec == ConflictInit /\ [][ConflictNext]_vars

\* ------------------------------------------------- tui.go and commands.go

\* The directory the UI and the CLI are started in, and an existing worktree.
Repo == <<"repo">>
Wt == <<"wt">>

\* The worktree that WorktreeManager.CreateBranch makes for the launch of
\* session k (its name carries the time of creation).
NewWorktree(k) == <<"wt", ToString(k)>>

MarkerDirs == {Repo, Wt} \cup { NewWorktree(k) : k \in 1..MaxLaunches }

\* Sessions are launched without a persona: the marker is .vibeflow-session.
Personas == {""}

\* filepath.Join(dir, sessionFileName): an empty dir is the current one.
DirOf(dir) == IF dir = <<>> THEN Repo ELSE dir

\* The UI's tick goroutine (a refresh pass, step by step), the UI's
\* command goroutine, one CLI process.
Threads == {"tick", "cmd", "cli"}

IdleThread ==
    [pc |-> "idle", op |-> "none", k |-> 0, meta |-> NoMeta,
     conf |-> NoConflict, resolved |-> FALSE, snap |-> <<>>, disc |-> <<>>,
     rec |-> {}, quiet |-> FALSE,
     choice |-> "", wm |-> FALSE, cdir |-> <<>>, wtfail |-> FALSE]

\* The thread of a launch of session k that returned an error; wtfail:
\* the creation of its worktree had failed.
FailedThread(k, wtfail) ==
    [IdleThread EXCEPT !.op = "failed", !.k = k, !.wtfail = wtfail]

\* Provider.SessionFile of the built-in providers: only claude has one.
SessionFile(provider) ==
    IF provider = "claude" THEN ".vibeflow-session" ELSE ""

\* lastOp when no command returned in the last step.
NoOp == "none"

SessInit ==
    /\ mux = {}
    /\ markers = [d \in MarkerDirs |-> [p \in Personas |-> NoFile]]
    /\ rows = <<>>
    /\ th = [t \in Threads |-> IdleThread]
    /\ nlaunch = 0
    /\ nrestart = 0
    /\ lastOp = NoOp
    /\ StoreIdle
    /\ HealthIdle
    /\ ConflictIdle
    /\ PidIdle
    /\ MarkIdle
    /\ RegIdle
    /\ ModalIdle
    /\ BackoffIdle
    /\ PaneIdle
    /\ WtIdle

Range(s) == { s[i] : i \in DOMAIN s }

\* The threads after thread t moved to `new` and the registry became
\* newFile: a pass of another thread is no longer undisturbed.
Touch(t, new, newFile) ==
    [u \in Threads |->
        IF u = t THEN new
        ELSE IF newFile # file THEN [th[u] EXCEPT !.quiet = FALSE]
        ELSE th[u]]

\* The metadata refreshSessions reconstructs for a discovered session.
Reconstruct(m, tmuxName) ==
    [NoMeta EXCEPT !.Name = TrimPrefix(tmuxName),
                   !.TmuxSession = tmuxName,
                   !.Provider = ParseSessionProvider(tmuxName),
                   !.WorkingDir = GetPaneWorkDir(m, tmuxName)]

\* refreshSessions: m.tmux.ListSessions().
RefreshList(t) ==
    /\ th[t].pc = "idle"
    /\ th' = [th EXCEPT ![t] =
                 [@ EXCEPT !.pc = "sync", !.snap = ListSessions(mux),
                           !.quiet = TRUE, !.op = "tick"]]
    /\ lastOp' = NoOp
    /\ UNCHANGED <<file, mux, markers, rows, nlaunch, nrestart>>
    /\ UNCHANGED <<storeCtl, healthVars, conflictVars, pidVars, markVars, extVars>>

\* refreshSessions: m.store.Sync(tmuxNames).
RefreshSync(t) ==
    /\ th[t].pc = "sync"
    /\ LET newFile == StoreSync(file, Range(th[t].snap))
       IN  /\ file' = newFile
           /\ th' = Touch(t, [th[t] EXCEPT !.pc = "discover"], newFile)
    /\ lastOp' = NoOp
    /\ UNCHANGED <<mux, markers, rows, nlaunch, nrestart>>
    /\ UNCHANGED <<storeCtl, healthVars, conflictVars, pidVars, markVars, extVars>>

\* refreshSessions: m.store.Discover(tmuxNames).
RefreshDiscover(t) ==
    /\ th[t].pc = "discover"
    /\ th' = [th EXCEPT ![t] =
                 [@ EXCEPT !.pc = "readd",
                           !.disc = StoreDiscover(file, th[t].snap)]]
    /\ lastOp' = NoOp
    /\ UNCHANGED <<file, mux, markers, rows, nlaunch, nrestart>>
    /\ UNCHANGED <<storeCtl, healthVars, conflictVars, pidVars, markVars, extVars>>

\* refreshSessions: one turn of the loop over the discovered sessions.
RefreshAdd(t) ==
    /\ th[t].pc = "readd"
    /\ th[t].disc # <<>>
    /\ LET tmuxName == Head(th[t].disc)
           newFile == StoreAdd(file, Reconstruct(mux, tmuxName))
       IN  /\ file' = newFile
           /\ th' = Touch(t, [th[t] EXCEPT !.disc = Tail(@),
                                           !.rec = @ \cup {tmuxName}],
                          newFile)
    /\ lastOp' = NoOp
    /\ UNCHANGED <<mux, markers, rows, nlaunch, nrestart>>
    /\ UNCHANGED <<storeCtl, healthVars, conflictVars, pidVars, markVars, extVars>>

\* refreshSessions builds the rows and returns; Update stores them.
RefreshDone(t) ==
    /\ th[t].pc = "readd"
    /\ th[t].disc = <<>>
    /\ rows' = [i \in 1..Len(th[t].snap) |-> TrimPrefix(th[t].snap[i])]
    /\ lastOp' = "tick"
    /\ th' = [th EXCEPT ![t] = IdleThread]
    /\ UNCHANGED <<file, mux, markers, nlaunch, nrestart>>
    /\ UNCHANGED <<storeCtl, healthVars, conflictVars, pidVars, markVars, extVars>>

RECURSIVE AddAll(_, _, _)
\* The loop over the discovered sessions, run without interruption.
AddAll(sessions, names, m) ==
    IF names = <<>> THEN sessions
    ELSE AddAll(StoreAdd(sessions, Reconstruct(m, Head(names))),
                Tail(names), m)

\* A whole pass of refreshSessions, run without interruption, on the
\* registry `sessions` and the live sessions m.
RefreshPass(sessions, m) ==
    LET snap == ListSessions(m)
        synced == StoreSync(sessions, Range(snap))
        disc == StoreDiscover(synced, snap)
    IN  [file |-> AddAll(synced, disc, m),
         rows |-> [i \in 1..Len(snap) |-> TrimPrefix(snap[i])],
         snap |-> snap,
         rec |-> Range(disc)]

\* The wizard results the session specification launches: claude, in a
\* git repository, with the worktree choices that name a directory.
WizardTargets ==
    { [choice |-> "current", dir |-> Repo, provider |-> "claude", wm |-> TRUE],
      [choice |-> "specify", dir |-> Wt, provider |-> "claude", wm |-> TRUE],
      [choice |-> "existing", dir |-> Wt, provider |-> "claude", wm |-> TRUE] }

\* The providers a launch is tried with: one with a session file, one
\* without.
LaunchProviders == {"claude", "codex"}

\* All wizard results: the worktree choice and the directory it names,
\* the provider, and whether a WorktreeManager could be made (the
\* directory is inside a git repository).
LaunchTargets ==
    { [choice |-> c.choice, dir |-> c.dir, provider |-> p, wm |-> g] :
        c \in { [choice |-> "current", dir |-> Repo],
                [choice |-> "specify", dir |-> Wt],
                [choice |-> "existing", dir |-> Wt],
                [choice |-> "new", dir |-> Repo] },
        p \in LaunchProviders, g \in BOOLEAN }

\* launchFromWizard checks the current and the specified directory only.
ConflictChecked(choice) == choice \in {"current", "specify"}

\* launchFromWizard: the conflict check, then the modal or executeLaunch.
\* conf records what CheckConflict says of the target directory, whether
\* or not the code asks.
WizardLaunch(w) ==
    /\ th["cmd"].pc = "idle"
    /\ nlaunch < MaxLaunches
    /\ LET conflict == CheckConflict(markers[w.dir][""], TRUE, mux)
       IN  th' = [th EXCEPT !["cmd"] =
                     [IdleThread EXCEPT
                         !.pc = IF ConflictChecked(w.choice)
                                   /\ conflict.Status # NoConflict
                                THEN "modal" ELSE "create",
                         !.op = "launch",
                         !.k = nlaunch + 1,
                         !.conf = conflict.Status,
                         !.choice = w.choice,
                         !.wm = w.wm,
                         !.cdir = w.dir,
                         !.meta = [NoMeta EXCEPT
                                      !.Provider = w.provider,
                                      !.WorkingDir = w.dir,
                                      !.WorktreePath =
                                          IF w.choice = "existing"
                                          THEN w.dir ELSE <<>>]]]
    /\ nlaunch' = nlaunch + 1
    /\ lastOp' = NoOp
    /\ UNCHANGED <<file, mux, markers, rows, nrestart>>
    /\ UNCHANGED <<storeCtl, healthVars, conflictVars, pidVars, markVars, extVars>>

\* NewConflictModal: the options offered for a status.
ConflictOptions(status) ==
    IF status = ActiveConflict THEN {"switch", "worktree", "cancel"}
    ELSE IF status = ExternalConflict THEN {"cleanup", "worktree", "cancel"}
    ELSE {"cleanup", "cancel"}

\* updateConflict: the user picks an option of the modal.  Switch attaches
\* to the running session and refreshes the list; Worktree re-runs the
\* wizard result with the choice WorktreeNew, which no longer looks at the
\* specified directory.
ConflictChoose(action) ==
    /\ th["cmd"].pc = "modal"
    /\ action \in ConflictOptions(th["cmd"].conf)
    /\ th' = [th EXCEPT !["cmd"] =
                 IF action = "cancel" THEN IdleThread
                 ELSE IF action = "switch" THEN IdleThread
                 ELSE IF action = "worktree"
                 THEN [@ EXCEPT !.pc = "create", !.resolved = TRUE,
                                !.choice = "new",
                                !.meta.WorkingDir = Repo]
                 ELSE [@ EXCEPT !.pc = "create", !.resolved = TRUE]]
    /\ markers' = IF action = "cleanup"
                  THEN [markers EXCEPT ![th["cmd"].meta.WorkingDir][""] = NoFile]
                  ELSE markers
    /\ LET r == RefreshPass(file, mux)
       IN  IF action = "switch"
           THEN /\ file' = r.file
                /\ rows' = r.rows
                /\ lastOp' = "switch"
           ELSE /\ lastOp' = NoOp
                /\ UNCHANGED <<file, rows>>
    /\ UNCHANGED <<mux, nlaunch, nrestart>>
    /\ UNCHANGED <<storeCtl, healthVars, conflictVars, pidVars, markVars, extVars>>

\* Mutant of MarkerAfterCreate: the marker is written before the session
\* is known to exist.
MarkerBeforeVerify(ok, provider, content, sessionID) ==
    IF SessionFile(provider) # ""
    THEN WriteSessionFileIfNeeded(content, sessionID)
    ELSE content

\* The marker after the steps that follow the worktree step of a launch:
\* it is written once the session is created and verified, and only for a
\* provider with a session file.
MarkerAfterCreate(ok, provider, content, sessionID) ==
    IF ok /\ SessionFile(provider) # ""
    THEN WriteSessionFileIfNeeded(content, sessionID)
    ELSE content

\* executeLaunch from the worktree switch to WriteSessionFileIfNeeded.
\* wtOk: CreateBranch succeeds; ok: CreateSessionWithOpts and the
\* has-session verification succeed.  Without a WorktreeManager the
\* WorktreeNew case is skipped and the launch stays in its directory.
LaunchCreate(wtOk, ok) ==
    /\ th["cmd"].pc = "create"
    /\ LET name == SessionID(th["cmd"].k)
           provider == th["cmd"].meta.Provider
           newTree == th["cmd"].choice = "new" /\ th["cmd"].wm
           workDir == IF newTree THEN NewWorktree(th["cmd"].k)
                      ELSE th["cmd"].meta.WorkingDir
           tmuxName == FullSessionName(provider, name)
           good == ok /\ (newTree => wtOk)
       IN  /\ mux' = IF good
                     THEN CreateSessionWithOpts(mux, provider, name, workDir)
                     ELSE mux
           /\ markers' = [markers EXCEPT ![DirOf(workDir)][""] =
                              MarkerAfterCreate(good, provider, @, name)]
           /\ th' = [th EXCEPT !["cmd"] =
                        IF good
                        THEN [@ EXCEPT !.pc = "add", !.meta.Name = name,
                                       !.meta.TmuxSession = tmuxName,
                                       !.meta.WorkingDir = workDir,
                                       !.meta.WorktreePath =
                                           IF newTree THEN workDir ELSE @]
                        ELSE FailedThread(th["cmd"].k, newTree /\ ~wtOk)]
    /\ lastOp' = NoOp
    /\ UNCHANGED <<file, rows, nlaunch, nrestart>>
    /\ UNCHANGED <<storeCtl, healthVars, conflictVars, pidVars, markVars, extVars>>

\* launchCmd up to WriteSessionFileIfNeeded(workDir, "", name): no
\* conflict check.  worktree: the --worktree flag; wm: loadComponents made
\* a WorktreeManager; wtOk: CreateBranch succeeds (when it fails the launch
\* goes on in the current directory); ok: the provider is known and
\* available, its environment is complete and CreateSessionWithOpts
\* succeeds.
CliLaunchStep(provider, worktree, wm, wtOk, ok) ==
    /\ th["cli"].pc = "idle"
    /\ nlaunch < MaxLaunches
    /\ LET name == SessionID(nlaunch + 1)
           tmuxName == FullSessionName(provider, name)
           workDir == IF worktree /\ wm /\ wtOk THEN NewWorktree(nlaunch + 1)
                      ELSE Repo
       IN  /\ mux' = IF ok
                     THEN CreateSessionWithOpts(mux, provider, name, workDir)
                     ELSE mux
           /\ th' = [th EXCEPT !["cli"] =
                        IF ok
                        THEN [IdleThread EXCEPT
                                 !.pc = "add", !.op = "launch",
                                 !.k = nlaunch + 1,
                                 !.conf = CheckConflict(markers[workDir][""],
                                                        TRUE, mux).Status,
                                 !.wm = wm,
                                 !.wtfail = worktree /\ wm /\ ~wtOk,
                                 !.meta = [NoMeta EXCEPT
                                              !.Name = name,
                                              !.TmuxSession = tmuxName,
                                              !.Provider = provider,
                                              !.WorkingDir = workDir]]
                        ELSE FailedThread(nlaunch + 1,
                                          worktree /\ wm /\ ~wtOk)]
           /\ markers' = [markers EXCEPT ![workDir][""] =
                              MarkerAfterCreate(ok, provider, @, name)]
    /\ nlaunch' = nlaunch + 1
    /\ lastOp' = NoOp
    /\ UNCHANGED <<file, rows, nrestart>>

\* launchCmd where the worktrees are not looked at.
CliLaunch(provider, worktree, wm, wtOk, ok) ==
    /\ CliLaunchStep(provider, worktree, wm, wtOk, ok)
    /\ UNCHANGED <<storeCtl, healthVars, conflictVars, pidVars, markVars, extVars>>

\* executeLaunch: store.Add, then refreshSessions.
LaunchAdd ==
    /\ th["cmd"].pc = "add"
    /\ LET r == RefreshPass(StoreAdd(file, th["cmd"].meta), mux)
       IN  /\ file' = r.file
           /\ rows' = r.rows
           /\ th' = Touch("cmd", IdleThread, r.file)
           /\ lastOp' = "launch"
    /\ UNCHANGED <<mux, markers, nlaunch, nrestart>>
    /\ UNCHANGED <<storeCtl, healthVars, conflictVars, pidVars, markVars, extVars>>

\* launchCmd, restartCmd: store.Add, and the command returns.
CliAdd ==
    /\ th["cli"].pc = "add"
    /\ LET newFile == StoreAdd(file, th["cli"].meta)
       IN  /\ file' = newFile
           /\ th' = Touch("cli", IdleThread, newFile)
    /\ lastOp' = NoOp
    /\ UNCHANGED <<mux, markers, rows, nlaunch, nrestart>>
    /\ UNCHANGED <<storeCtl, healthVars, conflictVars, pidVars, markVars, extVars>>

\* Update, delete confirmed with "y" on a row whose session is running:
\* KillSession, store.Get, RemoveSessionFile, store.Remove, then
\* refreshSessions.
TuiKill(i) ==
    /\ th["cmd"].pc = "idle"
    /\ i \in 1..Len(rows)
    /\ HasSession(mux, rows[i])
    /\ LET name == rows[i]
           meta == StoreGet(file, name)
           r == RefreshPass(StoreRemove(file, name), KillSession(mux, name))
       IN  /\ mux' = KillSession(mux, name)
           /\ markers' = IF StoreFound(file, name)
                         THEN [markers EXCEPT
                                  ![DirOf(meta.WorkingDir)][""] = NoFile]
                         ELSE markers
           /\ file' = r.file
           /\ rows' = r.rows
           /\ th' = Touch("cmd", IdleThread, r.file)
           /\ lastOp' = "kill"
    /\ UNCHANGED <<nlaunch, nrestart>>
    /\ UNCHANGED <<storeCtl, healthVars, conflictVars, pidVars, markVars, extVars>>

\* The names a user may pass to the CLI for session k: the id launch
\* printed, the name `list` shows, the full tmux name.
NameArgs ==
    UNION { { SessionID(k), <<"claude">> \o SessionID(k),
              FullSessionName("claude", SessionID(k)) }
            : k \in 1..nlaunch }

\* killCmd on a running session (on any other name KillSession fails and
\* the command returns its error).
CliKill(name) ==
    /\ th["cli"].pc = "idle"
    /\ HasSession(mux, name)
    /\ LET meta == StoreGet(file, name)
           found == StoreFound(file, name)
           newFile == IF found THEN StoreRemove(file, name) ELSE file
       IN  /\ mux' = KillSession(mux, name)
           /\ markers' = IF found
                         THEN [markers EXCEPT
                                  ![DirOf(meta.WorkingDir)][meta.Persona]
                                      = NoFile]
                         ELSE markers
           /\ file' = newFile
           /\ th' = Touch("cli", IdleThread, newFile)
    /\ lastOp' = NoOp
    /\ UNCHANGED <<rows, nlaunch, nrestart>>
    /\ UNCHANGED <<storeCtl, healthVars, conflictVars, pidVars, markVars, extVars>>

\* restartCmd up to WriteSessionFileIfNeeded: store.Get, KillSession of the
\* stored tmux name, CreateSessionWithOpts under the stored provider and
\* name, the marker under the stored persona.
CliRestart(name) ==
    /\ th["cli"].pc = "idle"
    /\ nrestart < MaxRestarts
    /\ nrestart' = nrestart + 1
    /\ StoreFound(file, name)
    /\ LET meta == StoreGet(file, name)
           provider == IF meta.Provider = "" THEN "claude" ELSE meta.Provider
           workDir == DirOf(meta.WorkingDir)
       IN  /\ mux' = CreateSessionWithOpts(KillSession(mux, meta.TmuxSession),
                                           provider, name, workDir)
           /\ th' = [th EXCEPT !["cli"] =
                        [IdleThread EXCEPT
                            !.pc = "add", !.op = "restart",
                            !.meta = [meta EXCEPT
                                         !.TmuxSession =
                                             FullSessionName(provider, name),
                                         !.Provider = provider,
                                         !.WorkingDir = workDir]]]
           /\ markers' = [markers EXCEPT ![workDir][meta.Persona] =
                              WriteSessionFileIfNeeded(@, name)]
    /\ lastOp' = NoOp
    /\ UNCHANGED <<file, rows, nlaunch>>
    /\ UNCHANGED <<storeCtl, healthVars, conflictVars, pidVars, markVars, extVars>>

SessNext ==
    \/ RefreshList("tick")
    \/ RefreshSync("tick")
    \/ RefreshDiscover("tick")
    \/ RefreshAdd("tick")
    \/ RefreshDone("tick")
    \/ \E w \in WizardTargets : WizardLaunch(w)
    \/ \E action \in {"switch", "worktree", "cleanup", "cancel"} :
          ConflictChoose(action)
    \/ LaunchCreate(TRUE, TRUE)
    \/ CliLaunch("claude", FALSE, TRUE, TRUE, TRUE)
    \/ LaunchAdd
    \/ CliAdd
    \/ \E i \in 1..MaxLaunches + 1 : TuiKill(i)
    \/ \E name \in NameArgs : CliKill(name)

\* The UI (its tick and its commands) next to CLI launches and kills.
SessSpec == SessInit /\ [][SessNext]_vars

CliNext ==
    \/ RefreshList("tick")
    \/ RefreshSync("tick")
    \/ RefreshDiscover("tick")
    \/ RefreshAdd("tick")
    \/ RefreshDone("tick")
    \/ CliLaunch("claude", FALSE, TRUE, TRUE, TRUE)
    \/ CliAdd
    \/ \E name \in NameArgs : CliKill(name)
    \/ \E name \in NameArgs : CliRestart(name)

\* The UI left ticking next to CLI launches, kills and restarts.
CliSpec == SessInit /\ [][CliNext]_vars

\* Launches with every worktree choice and provider, with and without a
\* git repository, failing or not; the UI's commands refresh the list,
\* its tick is left out.
LaunchNext ==
    \/ \E w \in LaunchTargets : WizardLaunch(w)
    \/ \E action \in {"switch", "worktree", "cleanup", "cancel"} :
          ConflictChoose(action)
    \/ \E wtOk, ok \in BOOLEAN : LaunchCreate(wtOk, ok)
    \/ LaunchAdd
    \/ \E provider \in LaunchProviders, worktree, wm, wtOk, ok \in BOOLEAN :
          CliLaunch(provider, worktree, wm, wtOk, ok)
    \/ CliAdd
    \/ \E i \in 1..MaxLaunches + 1 : TuiKill(i)

LaunchSpec == SessInit /\ [][LaunchNext]_vars

\* ------------------------------------------- tui.go, captures next to kills

\* The names a session row can carry.
RowNames ==
    UNION { { SessionID(k), <<"claude">> \o SessionID(k),
              FullSessionName("claude", SessionID(k)) }
            : k \in 1..MaxLaunches }

\* The captures of the selected session: plain output and a recoverable
\* error.
RowCaptures == { <<"All good">>, <<"API Error: 500">> }

\* NewModel: nothing launched, a monitor with the default of one retry
\* and no record.
WatchInit ==
    /\ mux = {}
    /\ markers = [d \in MarkerDirs |-> [p \in Personas |-> NoFile]]
    /\ rows = <<>>
    /\ th = [t \in Threads |-> IdleThread]
    /\ nlaunch = 0
    /\ nrestart = 0
    /\ lastOp = NoOp
    /\ hsess = [n \in RowNames |-> NoHealth]
    /\ hcfg = [Enabled |-> TRUE, MaxRetries |-> 1, DebounceSeconds |-> 0,
               BackoffMultiplier |-> 2]
    /\ now = 0
    /\ hlast = NoHealthCall
    /\ hsent = [n \in RowNames |-> 0]
    /\ StoreIdle
    /\ ConflictIdle
    /\ PidIdle
    /\ MarkIdle
    /\ RegIdle
    /\ ModalIdle
    /\ BackoffIdle
    /\ PaneIdle
    /\ WtIdle

\* Model.Update on captureMsg for the selected row i: the provider of the
\* row, CheckOutput and, when it says so, AttemptRecovery.
TuiCapture(i, output, sendOk) ==
    /\ i \in 1..Len(rows)
    /\ HCaptureMsg(rows[i], "claude", output, FALSE, sendOk)

WatchNext ==
    \/ RefreshList("tick")
    \/ RefreshSync("tick")
    \/ RefreshDiscover("tick")
    \/ RefreshAdd("tick")
    \/ RefreshDone("tick")
    \/ CliLaunch("claude", FALSE, TRUE, TRUE, TRUE)
    \/ CliAdd
    \/ \E i \in 1..MaxLaunches + 1, o \in RowCaptures, ok \in BOOLEAN :
          TuiCapture(i, o, ok)
    \/ \E i \in 1..MaxLaunches + 1 : TuiKill(i)

\* The UI ticking, capturing the selected session and killing sessions,
\* next to CLI launches.
WatchSpec == WatchInit /\ [][WatchNext]_vars

\* ------------------------------------------- tui.go, the capture pipeline

\* The session whose row is selected, and the provider in its record.
PaneName == "claude-session-a1"
PaneProvider == "claude"

\* ansiRe.ReplaceAllString(line, ""): the line without its escape sequences.
\* The lines of the model's vocabulary that carry escape sequences, "<ESC>"
\* standing for the byte 0x1b, and what is left of them.
AnsiLines ==
    [l \in {"<ESC>[31mAPI Error: 500<ESC>[0m"} |-> "API Error: 500"]

\* stripANSI
stripANSI(text) ==
    [i \in 1..Len(text) |->
        IF text[i] \in DOMAIN AnsiLines THEN AnsiLines[text[i]] ELSE text[i]]

RECURSIVE TrimRightNewlines(_)
\* strings.TrimRight(out, "\n") on a text given as its lines.
TrimRightNewlines(text) ==
    IF text # <<>> /\ text[Len(text)] = ""
    THEN TrimRightNewlines(SubSeq(text, 1, Len(text) - 1))
    ELSE text

\* TmuxManager.CapturePaneOutput for a tmux run that gives p.
CapturePaneOutput(p) ==
    IF p.err THEN [output |-> <<>>, err |-> TRUE]
    ELSE [output |-> TrimRightNewlines(p.output), err |-> FALSE]

\* strings.TrimSpace(output) == ""
IsBlank(text) == \A i \in 1..Len(text) : text[i] \in {"", " "}

NoOutput == <<"(no output)">>
NoOutputYet == <<"(no output yet)">>

\* Model.refreshCapture with a row selected: the captureMsg it returns.
refreshCapture(name, p) ==
    LET c == CapturePaneOutput(p)
    IN  IF c.err THEN [name |-> name, output |-> NoOutput]
        ELSE IF IsBlank(c.output) THEN [name |-> name, output |-> NoOutputYet]
        ELSE [name |-> name, output |-> stripANSI(c.output)]

\* What "tmux capture-pane" gives: an error (the session is gone, tmux does
\* not answer), an empty or blank pane, or the pane's text.
PaneResults ==
    { [err |-> TRUE, output |-> <<>>] }
    \cup
    { [err |-> FALSE, output |-> o] :
        o \in { <<>>, <<" ", "">>,
                <<"All good">>,
                <<"API Error: 500">>,
                <<"<ESC>[31mAPI Error: 500<ESC>[0m", "">>,
                <<"API Error: 429">> } }

\* The monitor switched on with the largest retry cap, without debounce and
\* with a debounce of one clock step.
PaneConfigs ==
    { c \in HealthConfigs : c.Enabled /\ c.MaxRetries = MaxRetriesTop }

PaneInit ==
    /\ hsess = [n \in HealthNames |-> NoHealth]
    /\ hcfg \in PaneConfigs
    /\ now = 0
    /\ hlast = NoHealthCall
    /\ hsent = [n \in HealthNames |-> 0]
    /\ PaneIdle
    /\ StoreIdle
    /\ SessIdle
    /\ ConflictIdle
    /\ PidIdle
    /\ MarkIdle
    /\ RegIdle
    /\ ModalIdle
    /\ BackoffIdle
    /\ WtIdle

\* Someone attaches a client to the session from another terminal.
PaneAttach ==
    /\ ~tmuxAttached
    /\ tmuxAttached' = TRUE
    /\ hlast' = [NoHealthCall EXCEPT !.op = "attach"]
    /\ UNCHANGED <<rowAttached, captureOutput, hsess, hcfg, now, hsent,
                   storeVars, sessVars, conflictVars, pidVars, markVars,
                   regVars, modalVars, backoffVars,
                   wtVars>>

\* The client detaches.
PaneDetach ==
    /\ tmuxAttached
    /\ tmuxAttached' = FALSE
    /\ hlast' = [NoHealthCall EXCEPT !.op = "detach"]
    /\ UNCHANGED <<rowAttached, captureOutput, hsess, hcfg, now, hsent,
                   storeVars, sessVars, conflictVars, pidVars, markVars,
                   regVars, modalVars, backoffVars,
                   wtVars>>

\* A refresh pass: Model.refreshSessions copies tmux's attached flag into
\* the row, and Model.Update stores the rows in Model.sessions.
PaneRefresh ==
    /\ rowAttached' = tmuxAttached
    /\ hlast' = [NoHealthCall EXCEPT !.op = "refresh"]
    /\ UNCHANGED <<tmuxAttached, captureOutput, hsess, hcfg, now, hsent,
                   storeVars, sessVars, conflictVars, pidVars, markVars,
                   regVars, modalVars, backoffVars,
                   wtVars>>

\* A capture tick: Model.refreshCapture, then Model.Update on the captureMsg
\* it returned, which reads provider and attached flag from Model.sessions.
PaneCapture(p, sendOk) ==
    LET msg == refreshCapture(PaneName, p)
    IN  /\ captureOutput' = msg.output
        /\ IF msg.name # "" /\ msg.output # <<>>
           THEN CaptureMsgStep(msg.name, PaneProvider, msg.output,
                               rowAttached, sendOk)
           ELSE /\ hlast' = [NoHealthCall EXCEPT !.op = "capture"]
                /\ UNCHANGED <<hsess, hsent>>
        /\ UNCHANGED <<tmuxAttached, rowAttached, hcfg, now,
                       storeVars, sessVars, conflictVars, pidVars, markVars,
                       regVars, modalVars, backoffVars,
                   wtVars>>

PaneNext ==
    \/ PaneAttach
    \/ PaneDetach
    \/ PaneRefresh
    \/ \E p \in PaneResults, ok \in BOOLEAN : PaneCapture(p, ok)
    \/ \E d \in TickSteps : HTick(d)

\* The TUI watching one session that clients attach to and detach from.
PaneSpec == PaneInit /\ [][PaneNext]_vars

\* ------------------------------------- tui_worktrees.go, the worktree list

\* WorktreeManager.List on a repository with the linked worktrees g: the
\* main working tree first, then the linked ones in the order they were
\* added.  All paths are absolute.
WorktreeList(g) ==
    LET Linked(p) == p \in g
    IN  <<Repo>> \o SelectSeq([k \in 1..MaxLaunches |-> NewWorktree(k)],
                              Linked)

\* WorktreeManager.Remove(path, true): "git worktree remove --force"
\* removes a linked worktree and refuses the main working tree.
WorktreeRemove(g, path) == g \ {path}

\* NewWorktreeListModel on the worktrees wts and the registry `sessions`: a
\* row is "active" when some record's WorktreePath is its path (the last
\* such record names the session), "orphaned" otherwise.
NewWorktreeListModel(wts, sessions) ==
    LET users(p) == { j \in 1..Len(sessions) :
                        /\ sessions[j].WorktreePath # <<>>
                        /\ sessions[j].WorktreePath = p }
        last(p) == CHOOSE j \in users(p) : \A i \in users(p) : i <= j
    IN  [NoWorktreeList EXCEPT !.rows =
            [i \in 1..Len(wts) |->
                IF users(wts[i]) = {}
                THEN [Path |-> wts[i], Session |-> <<>>,
                      Status |-> "orphaned"]
                ELSE [Path |-> wts[i],
                      Session |-> sessions[last(wts[i])].Name,
                      Status |-> "active"]]]

\* WorktreeListModel.Update on a key; the cursor counts from 0.
WorktreeListUpdate(wl, key) ==
    CASE key \in {"up", "k"} ->
            IF wl.cursor > 0 THEN [wl EXCEPT !.cursor = @ - 1] ELSE wl
      [] key \in {"down", "j"} ->
            IF wl.cursor < Len(wl.rows) - 1
            THEN [wl EXCEPT !.cursor = @ + 1] ELSE wl
      [] key = "d" ->
            IF /\ wl.cursor < Len(wl.rows)
               /\ wl.rows[wl.cursor + 1].Status = "orphaned"
            THEN [wl EXCEPT !.deleted = TRUE,
                            !.deletedWt = wl.rows[wl.cursor + 1].Path]
            ELSE wl
      [] key = "esc" -> [wl EXCEPT !.done = TRUE]
      [] OTHER -> wl

WtKeys == {"up", "down", "d", "esc"}

\* launchCmd with --worktree: CreateBranch adds the worktree of the launch.
WtCliLaunch ==
    /\ CliLaunchStep("claude", TRUE, TRUE, TRUE, TRUE)
    /\ wtGit' = wtGit \cup {NewWorktree(nlaunch + 1)}
    /\ UNCHANGED <<activeView, worktreeList>>
    /\ UNCHANGED <<storeCtl, healthVars, conflictVars, pidVars, markVars,
                   regVars, modalVars, backoffVars, paneVars>>

\* Model.Update, key "w" on the session list.
WtOpen ==
    /\ activeView = "sessions"
    /\ worktreeList' = NewWorktreeListModel(WorktreeList(wtGit), file)
    /\ activeView' = "worktrees"
    /\ UNCHANGED <<wtGit, storeVars, healthVars, sessVars, conflictVars,
                   pidVars, markVars, regVars, modalVars, backoffVars,
                   paneVars>>

\* Model.updateWorktreeList on a key: after a deletion the worktree is
\* removed and the list is rebuilt; "esc" goes back to the session list.
WtKey(key) ==
    /\ activeView = "worktrees"
    /\ LET wl == WorktreeListUpdate(worktreeList, key)
           g == WorktreeRemove(wtGit, wl.deletedWt)
       IN  IF wl.deleted
           THEN /\ wtGit' = g
                /\ worktreeList' = NewWorktreeListModel(WorktreeList(g), file)
                /\ UNCHANGED activeView
           ELSE /\ worktreeList' = wl
                /\ activeView' = IF wl.done THEN "sessions" ELSE activeView
                /\ UNCHANGED wtGit
    /\ UNCHANGED <<storeVars, healthVars, sessVars, conflictVars,
                   pidVars, markVars, regVars, modalVars, backoffVars,
                   paneVars>>

WtNext ==
    \/ WtCliLaunch
    \/ CliAdd
    \/ RefreshList("tick")
    \/ RefreshSync("tick")
    \/ RefreshDiscover("tick")
    \/ RefreshAdd("tick")
    \/ RefreshDone("tick")
    \/ \E i \in 1..MaxLaunches : TuiKill(i)
    \/ WtOpen
    \/ \E key \in WtKeys : WtKey(key)

\* The UI with its worktree list, next to CLI launches into new worktrees.
WtSpec == SessInit /\ [][WtNext]_vars

\* -------------------------------------------------------------- pidlock.go

\* No lock file, or one that does not hold a positive number.
NoPid == 0

\* The UI instances; instance i runs as process i.
Insts == 1..NumInsts

\* syscall.Kill(pid, 0) == nil: the process exists.
processAlive(pid) == pid \in Insts /\ ipc[pid] # "off"

\* readPIDLock: the PID in the file if that process is alive, else 0.
readPIDLock(content) ==
    IF content # NoPid /\ processAlive(content) THEN content ELSE NoPid

PidInit ==
    /\ pidfile = NoPid
    /\ ipc = [i \in Insts |-> "off"]
    /\ pidres = [i \in Insts |-> "none"]
    /\ StoreIdle
    /\ HealthIdle
    /\ SessIdle
    /\ ConflictIdle
    /\ MarkIdle
    /\ RegIdle
    /\ ModalIdle
    /\ BackoffIdle
    /\ PaneIdle
    /\ WtIdle

\* runTUI starts; AcquirePIDLock up to the test of the existing lock.  A
\* live holder makes it return the error and the instance exits.
AcquireProbe(i) ==
    /\ ipc[i] = "off"
    /\ IF readPIDLock(pidfile) # NoPid
       THEN /\ pidres' = [pidres EXCEPT ![i] = "refused"]
            /\ UNCHANGED ipc
       ELSE /\ ipc' = [ipc EXCEPT ![i] = "write"]
            /\ pidres' = [pidres EXCEPT ![i] = "none"]
    /\ UNCHANGED pidfile
    /\ UNCHANGED <<storeVars, healthVars, sessVars, conflictVars, markVars, extVars>>

\* AcquirePIDLock: os.WriteFile of the own PID; it returns nil.
AcquireWrite(i) ==
    /\ ipc[i] = "write"
    /\ pidfile' = i
    /\ ipc' = [ipc EXCEPT ![i] = "run"]
    /\ pidres' = [pidres EXCEPT ![i] = "acquired"]
    /\ UNCHANGED <<storeVars, healthVars, sessVars, conflictVars, markVars, extVars>>

\* runTUI returns: the deferred ReleasePIDLock removes the file.
ReleasePIDLock(i) ==
    /\ ipc[i] = "run"
    /\ pidfile' = NoPid
    /\ ipc' = [ipc EXCEPT ![i] = "off"]
    /\ pidres' = [pidres EXCEPT ![i] = "none"]
    /\ UNCHANGED <<storeVars, healthVars, sessVars, conflictVars, markVars, extVars>>

\* The instance is killed: the file stays and its PID is stale.
PidKilled(i) ==
    /\ ipc[i] \in {"write", "run"}
    /\ ipc' = [ipc EXCEPT ![i] = "off"]
    /\ pidres' = [pidres EXCEPT ![i] = "none"]
    /\ UNCHANGED pidfile
    /\ UNCHANGED <<storeVars, healthVars, sessVars, conflictVars, markVars, extVars>>

PidNext ==
    \E i \in Insts :
        \/ AcquireProbe(i)
        \/ AcquireWrite(i)
        \/ ReleasePIDLock(i)
        \/ PidKilled(i)

PidSpec == PidInit /\ [][PidNext]_vars

\* ------------------------------------- conflict.go, the personas' markers

sessionFileName == ".vibeflow-session"

\* Mutant of sessionFileForPersona: one marker file for all personas.
sessionFileForPersonaShared(persona) == <<sessionFileName>>

\* sessionFileForPersona: the file name as its parts, ".vibeflow-session"
\* and, for a persona, "-" and the persona.
sessionFileForPersona(persona) ==
    IF persona = "" THEN <<sessionFileName>>
    ELSE <<sessionFileName, "-", persona>>

\* filepath.Join(dir, sessionFileForPersona(persona))
MarkerPath(dir, persona) ==
    [dir |-> dir, name |-> sessionFileForPersona(persona)]

MarkerPersonas == {"", "developer"}

MarkerWorkDirs == {Repo, Wt}

MarkerFiles == { MarkerPath(d, p) : d \in MarkerWorkDirs, p \in MarkerPersonas }

\* Session ids of the grammar session-...
MarkerIDs == {SessionID(1), SessionID(2)}

\* Markers in the extended formats parseSessionFile supports, which this
\* program reads and does not write.
ExtendedContents ==
    { SessionFileContent(SessionID(1))
          \o << [key |-> "provider", val |-> "codex"] >>,
      SessionFileContent(SessionID(1))
          \o << [key |-> "tmux_session",
                 val |-> FullSessionName("claude", SessionID(1))] >> }

\* What os.WriteFile does: it writes; it fails to open the file; or it
\* fails after truncating it.
WriteOutcomes == {"ok", "open", "short"}

WriteFile(old, new, outcome) ==
    CASE outcome = "ok" -> new
      [] outcome = "open" -> old
      [] OTHER -> NoFile

\* The mux a check runs against: none (a nil manager), one whose server is
\* not reachable (it lists nothing), and one running session-1.
MarkerMuxes ==
    { [hasTmux |-> FALSE, m |-> {}],
      [hasTmux |-> TRUE, m |-> {}],
      [hasTmux |-> TRUE,
       m |-> { [Name |-> FullSessionName("claude", SessionID(1)),
                WorkDir |-> Repo] }] }

NoMarkerCall ==
    [op |-> "none", dir |-> <<>>, persona |-> "", err |-> FALSE,
     connected |-> FALSE, res |-> <<>>]

NoWrite ==
    [valid |-> FALSE, dir |-> <<>>, persona |-> "", sessionID |-> <<>>,
     kept |-> FALSE]

MarkInit ==
    /\ mfs = [f \in MarkerFiles |-> NoFile]
    /\ mcall = NoMarkerCall
    /\ mfresh = NoWrite
    /\ StoreIdle
    /\ HealthIdle
    /\ SessIdle
    /\ ConflictIdle
    /\ PidIdle
    /\ RegIdle
    /\ ModalIdle
    /\ BackoffIdle
    /\ PaneIdle
    /\ WtIdle

\* WriteSessionFile(dir, persona, sessionID)
MWriteSessionFile(dir, persona, sessionID, outcome) ==
    LET f == MarkerPath(dir, persona)
    IN  /\ mfs' = [mfs EXCEPT ![f] =
                      WriteFile(@, SessionFileContent(sessionID), outcome)]
        /\ mcall' = [NoMarkerCall EXCEPT !.op = "write", !.dir = dir,
                        !.persona = persona, !.err = (outcome # "ok")]
        /\ mfresh' = IF outcome = "ok"
                     THEN [valid |-> TRUE, dir |-> dir, persona |-> persona,
                           sessionID |-> sessionID, kept |-> FALSE]
                     ELSE NoWrite
        /\ UNCHANGED <<storeVars, healthVars, sessVars, conflictVars, pidVars, extVars>>

\* WriteSessionFileIfNeeded(dir, persona, sessionID): nothing is written
\* when the file already holds the id.
MWriteSessionFileIfNeeded(dir, persona, sessionID, outcome) ==
    LET f == MarkerPath(dir, persona)
        existing == readSessionFileID(mfs[f]).sessionID
    IN  IF existing = sessionID
        THEN /\ mcall' = [NoMarkerCall EXCEPT !.op = "write", !.dir = dir,
                             !.persona = persona]
             /\ mfresh' = [valid |-> TRUE, dir |-> dir, persona |-> persona,
                           sessionID |-> sessionID, kept |-> TRUE]
             /\ UNCHANGED mfs
             /\ UNCHANGED <<storeVars, healthVars, sessVars, conflictVars,
                            pidVars, extVars>>
        ELSE MWriteSessionFile(dir, persona, sessionID, outcome)

\* A marker in an extended format is found in the directory: left by an
\* agent started outside this program, or by an older release.
MExtendedMarker(dir, persona, content) ==
    /\ mfs' = [mfs EXCEPT ![MarkerPath(dir, persona)] = content]
    /\ mcall' = [NoMarkerCall EXCEPT !.op = "extended", !.dir = dir,
                    !.persona = persona]
    /\ mfresh' = NoWrite
    /\ UNCHANGED <<storeVars, healthVars, sessVars, conflictVars, pidVars, extVars>>

\* CleanupStaleSession(dir, persona) / RemoveSessionFile(dir, persona)
MCleanupStaleSession(dir, persona) ==
    /\ mfs' = [mfs EXCEPT ![MarkerPath(dir, persona)] = NoFile]
    /\ mcall' = [NoMarkerCall EXCEPT !.op = "cleanup", !.dir = dir,
                    !.persona = persona,
                    !.err = (mfs[MarkerPath(dir, persona)] = NoFile)]
    /\ mfresh' = NoWrite
    /\ UNCHANGED <<storeVars, healthVars, sessVars, conflictVars, pidVars, extVars>>

\* readSessionFileID(dir, persona)
MReadSessionFileID(dir, persona) ==
    /\ mcall' = [NoMarkerCall EXCEPT !.op = "read", !.dir = dir,
                    !.persona = persona,
                    !.res = readSessionFileID(mfs[MarkerPath(dir, persona)])]
    /\ UNCHANGED <<mfs, mfresh>>
    /\ UNCHANGED <<storeVars, healthVars, sessVars, conflictVars, pidVars, extVars>>

\* CheckConflict(dir, persona, tmux)
MCheckConflict(dir, persona, tmux) ==
    /\ mcall' = [NoMarkerCall EXCEPT !.op = "check", !.dir = dir,
                    !.persona = persona,
                    !.connected = (tmux.m # {}),
                    !.res = CheckConflict(mfs[MarkerPath(dir, persona)],
                                          tmux.hasTmux, tmux.m)]
    /\ UNCHANGED <<mfs, mfresh>>
    /\ UNCHANGED <<storeVars, healthVars, sessVars, conflictVars, pidVars, extVars>>

MarkNext ==
    \/ \E d \in MarkerWorkDirs, p \in MarkerPersonas, id \in MarkerIDs,
          o \in WriteOutcomes : MWriteSessionFile(d, p, id, o)
    \/ \E d \in MarkerWorkDirs, p \in MarkerPersonas, id \in MarkerIDs,
          o \in WriteOutcomes : MWriteSessionFileIfNeeded(d, p, id, o)
    \/ \E d \in MarkerWorkDirs, p \in MarkerPersonas,
          c \in ExtendedContents : MExtendedMarker(d, p, c)
    \/ \E d \in MarkerWorkDirs, p \in MarkerPersonas :
          MCleanupStaleSession(d, p)
    \/ \E d \in MarkerWorkDirs, p \in MarkerPersonas :
          MReadSessionFileID(d, p)
    \/ \E d \in MarkerWorkDirs, p \in MarkerPersonas, t \in MarkerMuxes :
          MCheckConflict(d, p, t)

MarkSpec == MarkInit /\ [][MarkNext]_vars

\* ------------------------------------------- conflict.go, CheckAllSessions

\* A directory entry that is a directory, and the contents of a file that
\* is not a marker.
DirEntry == << [key |-> "dir", val |-> <<>>] >>
OtherFile == << [key |-> "", val |-> <<"text">>] >>

\* The entries the work directory may hold, in os.ReadDir's order (sorted
\* by file name): the two personas' markers, a backup copy of the marker,
\* a directory whose name looks like a marker's, and an unrelated file.
EntryOrder ==
    << <<sessionFileName>>,
       <<sessionFileName, "-", "architect">>,
       <<sessionFileName, "-", "developer">>,
       <<sessionFileName, ".bak">>,
       <<"README.md">> >>

EntryNames == { EntryOrder[i] : i \in 1..Len(EntryOrder) }

\* Entries that are not the marker of one of MarkerPersonas, and what they
\* may be.
OtherEntries ==
    [ n \in EntryNames \ { sessionFileForPersona(p) : p \in MarkerPersonas }
        |-> IF n = <<sessionFileName, "-", "architect">>
            THEN {DirEntry} ELSE {OtherFile} ]

\* os.ReadDir(dir): the entries that exist.  A marker file that is empty
\* gives no result, as an absent one.
ReadDir(fs, dir) ==
    SelectSeq(EntryOrder, LAMBDA n : fs[[dir |-> dir, name |-> n]] # NoFile)

\* CheckAllSessions' persona of an entry name that has the prefix
\* ".vibeflow-session": what follows "-", or "" when no "-" follows.
PersonaOfEntry(name) ==
    IF Len(name) >= 3 /\ name[2] = "-" THEN name[3] ELSE ""

\* CheckConflict(dir, persona, tmux) with the persona-aware result.
CheckConflictP(fs, dir, persona, tmux) ==
    LET f == MarkerPath(dir, persona)
        content == IF f \in DOMAIN fs /\ fs[f] # DirEntry THEN fs[f]
                   ELSE NoFile
        r == CheckConflict(content, tmux.hasTmux, tmux.m)
    IN  IF r.Status = NoConflict
        THEN [Status |-> NoConflict, SessionID |-> <<>>, Persona |-> "",
              Provider |-> "", TmuxSession |-> <<>>, FilePath |-> <<>>]
        ELSE [Status |-> r.Status, SessionID |-> r.SessionID,
              Persona |-> persona, Provider |-> r.Provider,
              TmuxSession |-> r.TmuxSession, FilePath |-> f]

RECURSIVE CheckAllEntries(_, _, _, _)
\* CheckAllSessions' loop over the entries.
CheckAllEntries(entries, fs, dir, tmux) ==
    IF entries = <<>> THEN <<>>
    ELSE LET name == Head(entries)
             rest == CheckAllEntries(Tail(entries), fs, dir, tmux)
             result == CheckConflictP(fs, dir, PersonaOfEntry(name), tmux)
         IN  IF Head(name) # sessionFileName
                   \/ fs[[dir |-> dir, name |-> name]] = DirEntry
             THEN rest
             ELSE IF result.Status # NoConflict THEN <<result>> \o rest
             ELSE rest

\* CheckAllSessions(dir, tmux)
CheckAllSessions(fs, dir, tmux) ==
    CheckAllEntries(ReadDir(fs, dir), fs, dir, tmux)

AllInit ==
    /\ mfs = [f \in { [dir |-> Repo, name |-> n] : n \in EntryNames }
                |-> NoFile]
    /\ mcall = NoMarkerCall
    /\ mfresh = NoWrite
    /\ StoreIdle
    /\ HealthIdle
    /\ SessIdle
    /\ ConflictIdle
    /\ PidIdle
    /\ RegIdle
    /\ ModalIdle
    /\ BackoffIdle
    /\ PaneIdle
    /\ WtIdle

\* Something other than this program creates or removes an entry that is
\* not a marker of MarkerPersonas.
MOtherEntry(name, content) ==
    /\ mfs' = [mfs EXCEPT ![[dir |-> Repo, name |-> name]] = content]
    /\ mcall' = [NoMarkerCall EXCEPT !.op = "other", !.dir = Repo]
    /\ mfresh' = NoWrite
    /\ UNCHANGED <<storeVars, healthVars, sessVars, conflictVars, pidVars, extVars>>

\* CheckAllSessions(dir, tmux), as the UI calls it.
MCheckAllSessions(tmux) ==
    /\ mcall' = [NoMarkerCall EXCEPT !.op = "checkall", !.dir = Repo,
                    !.connected = (tmux.m # {}),
                    !.res = CheckAllSessions(mfs, Repo, tmux)]
    /\ UNCHANGED <<mfs, mfresh>>
    /\ UNCHANGED <<storeVars, healthVars, sessVars, conflictVars, pidVars, extVars>>

AllNext ==
    \/ \E p \in MarkerPersonas, id \in MarkerIDs, o \in WriteOutcomes :
          MWriteSessionFileIfNeeded(Repo, p, id, o)
    \/ \E p \in MarkerPersonas, c \in ExtendedContents :
          MExtendedMarker(Repo, p, c)
    \/ \E p \in MarkerPersonas : MCleanupStaleSession(Repo, p)
    \/ \E n \in DOMAIN OtherEntries :
          \E c \in OtherEntries[n] \cup {NoFile} : MOtherEntry(n, c)
    \/ \E t \in MarkerMuxes : MCheckAllSessions(t)

AllSpec == AllInit /\ [][AllNext]_vars

\* ----------------------------------------------------------------- claims

RECURSIVE Replay(_, _, _)
\* The registry after the calls cs[order[1]], cs[order[2]], ... run one
\* after the other from the contents `sessions`.
Replay(cs, order, sessions) ==
    IF order = <<>> THEN sessions
    ELSE Replay(cs, Tail(order), Transform(cs[Head(order)], sessions))

Orders(n) ==
    { o \in [1..n -> 1..n] : \A i, j \in 1..n : i # j => o[i] # o[j] }

StoreQuiescent == \A p \in Procs : spc[p] = "idle"

\* C1: when every concurrent add/remove call has returned, the registry
\* file equals the result of running the calls that succeeded one after the
\* other in some order, starting from the empty registry: no update is lost.
C1_StoreSerialisable ==
    StoreQuiescent =>
        \E o \in Orders(Len(done)) : file = Replay(done, o, <<>>)

\* C1 witness: two calls overlapped (the second had to wait for the lock)
\* and both have returned, leaving both records in the file.
C1_Witness ==
    /\ StoreQuiescent
    /\ Len(done) >= 2
    /\ Len(file) = 2

\* C2: a session whose status is failed stays failed under every call of
\* check-output and attempt-recovery (and while time passes): a step that
\* takes a session out of failed is a reset of that session.
C2_FailedUntilReset ==
    [][\A n \in HealthNames :
          (hsess[n].Tracked /\ hsess[n].Status = HealthFailed
              /\ ~(hsess'[n].Tracked /\ hsess'[n].Status = HealthFailed))
          => (hlast'.op = "reset" /\ hlast'.name = n)]_vars

\* C2 witness: attempt-recovery was called on a failed session (its count
\* had already reached the cap), sent its message, and the session is
\* still failed.
C2_Witness ==
    \E n \in HealthNames :
        /\ hlast.op = "recover" /\ hlast.name = n /\ hlast.sent
        /\ hsess[n].RecoveryCount > hcfg.MaxRetries
        /\ hsess[n].Status = HealthFailed

\* C3: a capture handled with is_attached = true never returns a recovery
\* request and never sends a recovery message, in whatever state the
\* session is.
C3_NoRecoveryWhenAttached ==
    (hlast.op = "capture" /\ hlast.attached) => (~hlast.ret /\ ~hlast.sent)

\* C3 witness: an attached capture arrived for a recovering session whose
\* backoff had expired and whose output had not changed, the case in which
\* only the attached flag holds the recovery back.
C3_Witness ==
    \E n \in HealthNames :
        /\ hlast.op = "capture" /\ hlast.name = n /\ hlast.attached
        /\ hsess[n].Status = HealthRecovering
        /\ now >= hsess[n].BackoffUntil

\* C4: recovery is requested only while recovery-count < max-retries; at
\* most max-retries messages are sent between two zeroings of the count;
\* the count never exceeds max-retries; and a session whose count has
\* reached max-retries is failed.
C4_RetryCap ==
    \A n \in HealthNames :
        /\ hsess[n].RecoveryCount <= hcfg.MaxRetries
        /\ hsent[n] <= hcfg.MaxRetries
        /\ (hlast.op = "capture" /\ hlast.name = n /\ hlast.ret) =>
               (IF hlast.sent THEN hsess[n].RecoveryCount - 1
                ELSE hsess[n].RecoveryCount) < hcfg.MaxRetries
        /\ (hsess[n].RecoveryCount >= 1
               /\ hsess[n].RecoveryCount >= hcfg.MaxRetries) =>
               hsess[n].Status = HealthFailed

\* C4 witness: the last allowed message (number max-retries >= 2) has just
\* been sent and the session is failed.
C4_Witness ==
    \E n \in HealthNames :
        /\ hlast.op = "capture" /\ hlast.sent
        /\ hcfg.MaxRetries >= 2
        /\ hsent[n] = hcfg.MaxRetries
        /\ hsess[n].Status = HealthFailed

\* C17: a step that takes a session into failed either scanned a capture
\* that matched a fatal pattern, or leaves recovery-count >= max-retries.
C17_FailedOnlyByFatalOrCap ==
    [][\A n \in HealthNames :
          (hsess'[n].Status = HealthFailed /\ hsess[n].Status # HealthFailed)
          => \/ /\ hlast'.op \in {"check", "capture"} /\ hlast'.name = n
                /\ hlast'.match # 0
                /\ DefaultPatterns[hlast'.match].Severity = SeverityFatal
             \/ hsess'[n].RecoveryCount >= hcfg.MaxRetries]_vars

\* C17 witness: attempt-recovery has just sent the message number
\* max-retries >= 1 for a recoverable pattern, and that step gave the
\* session up.
C17_Witness ==
    \E n \in HealthNames :
        /\ hlast.op = "recover" /\ hlast.name = n /\ hlast.sent
        /\ hcfg.MaxRetries >= 1
        /\ hsess[n].RecoveryCount = hcfg.MaxRetries
        /\ DefaultPatterns[hsess[n].MatchedPattern].Severity
               = SeverityRecoverable
        /\ hsess[n].Status = HealthFailed

\* A capture that matches a recoverable pattern has just been checked, by
\* check-output alone or by the UI's capture handler.
RecoverableChecked(call, n) ==
    /\ call.op \in {"check", "capture"} /\ call.name = n
    /\ ~call.attached
    /\ call.match # 0
    /\ DefaultPatterns[call.match].Severity = SeverityRecoverable

\* C18: with debounce 0 and max-retries > 1, for a session nobody is
\* attached to: the first capture matching a recoverable pattern moves
\* healthy to error_detected and returns no action; the same capture
\* checked again returns a recovery request; and the attempt-recovery
\* that follows and succeeds leaves the message sent exactly once, status
\* recovering and recovery-count 1.
C18_SecondCaptureRecovers ==
    [][\A n \in HealthNames :
          (hcfg.DebounceSeconds = 0 /\ hcfg.MaxRetries > 1) =>
          /\ (/\ (~hsess[n].Tracked \/ hsess[n].Status = HealthHealthy)
               /\ RecoverableChecked(hlast', n))
              => /\ hsess'[n].Status = HealthErrorDetected
                 /\ hsess'[n].LastOutput = hlast'.output
                 /\ hsess'[n].RecoveryCount = 0
                 /\ ~hlast'.ret /\ ~hlast'.sent
          /\ (/\ RecoverableChecked(hlast, n)
               /\ hsess[n].Status = HealthErrorDetected
               /\ hsess[n].RecoveryCount = 0
               /\ RecoverableChecked(hlast', n)
               /\ hlast'.output = hlast.output)
              => /\ hlast'.ret
                 /\ hlast'.op = "check" =>
                        hsess'[n].Status = HealthErrorDetected
                 /\ (hlast'.op = "capture" /\ hlast'.sent) =>
                        /\ hsent'[n] = 1
                        /\ hsess'[n].Status = HealthRecovering
                        /\ hsess'[n].RecoveryCount = 1
          /\ (/\ RecoverableChecked(hlast, n) /\ hlast.ret
               /\ hsess[n].Status = HealthErrorDetected
               /\ hsess[n].RecoveryCount = 0
               /\ hlast'.op = "recover" /\ hlast'.name = n /\ hlast'.sent)
              => /\ hsent'[n] = 1
                 /\ hsess'[n].Status = HealthRecovering
                 /\ hsess'[n].RecoveryCount = 1]_vars

\* C18 witness: the second of two identical captures has requested the
\* recovery and the message has been sent; debounce is 0 and max-retries
\* is 2.
C18_Witness ==
    \E n \in HealthNames :
        /\ hcfg.DebounceSeconds = 0 /\ hcfg.MaxRetries > 1
        /\ RecoverableChecked(hlast, n) /\ hlast.ret /\ hlast.sent
        /\ hlast.output = hsess[n].LastOutput
        /\ hsess[n].Status = HealthRecovering
        /\ hsess[n].RecoveryCount = 1
        /\ hsent[n] = 1

\* Session n is failed on a fatal pattern.
FailedFatal(sh) ==
    /\ sh.Tracked /\ sh.Status = HealthFailed
    /\ sh.MatchedPattern # 0
    /\ DefaultPatterns[sh.MatchedPattern].Severity = SeverityFatal

OnFreshMarker(op) ==
    /\ mfresh.valid
    /\ mcall.op = op
    /\ mcall.dir = mfresh.dir /\ mcall.persona = mfresh.persona

\* C20 as stated: after write-marker(dir, persona, id), read-marker yields
\* (id, "claude", no mux binding), and a conflict check against an absent
\* or unreachable mux returns stale or external.
C20_MarkerRoundTrip ==
    /\ OnFreshMarker("read") =>
           mcall.res = [sessionID |-> mfresh.sessionID, provider |-> "claude",
                        tmuxSession |-> <<>>]
    /\ (OnFreshMarker("check") /\ ~mcall.connected) =>
           mcall.res.Status \in {StaleConflict, ExternalConflict}

\* C20 amended: after write-marker(dir, persona, id), read-marker yields
\* id, with agent kind "claude" and no mux binding unless the file already
\* held id and was left as it was; and a conflict check against an absent
\* or unreachable mux returns stale or external.
C20_MarkerRoundTripUnlessKept ==
    /\ OnFreshMarker("read") =>
           /\ mcall.res.sessionID = mfresh.sessionID
           /\ ~mfresh.kept =>
                  (mcall.res.provider = "claude"
                      /\ mcall.res.tmuxSession = <<>>)
    /\ (OnFreshMarker("check") /\ ~mcall.connected) =>
           mcall.res.Status \in {StaleConflict, ExternalConflict}

\* C20 witness: session-2 was written to a persona's marker, in a
\* directory that also holds a marker without persona, and read back.
C20_Witness ==
    /\ OnFreshMarker("read")
    /\ ~mfresh.kept
    /\ mfresh.persona # ""
    /\ mfresh.sessionID = SessionID(2)
    /\ mcall.res.sessionID = SessionID(2)
    /\ mfs[MarkerPath(mfresh.dir, "")] # NoFile

\* The tmux names the registry holds records for.
TmuxOf(sessions) == { sessions[i].TmuxSession : i \in 1..Len(sessions) }

\* C5: in every reachable state of the registry no two records have the
\* same tmux name, under any interleaving of launches, refresh passes,
\* restarts and kills.
C5_MuxNameUnique ==
    \A i, j \in 1..Len(file) :
        i # j => file[i].TmuxSession # file[j].TmuxSession

\* C6: a kill of a session that launch k created and recorded leaves
\* neither that session's marker in its working directory nor a record of
\* it in the registry.  A kill is a step that only ends tmux sessions.
C6_KillCleans ==
    [][\A s \in mux \ mux', k \in 1..MaxLaunches :
          ( /\ mux' \subseteq mux
            /\ s.Name = FullSessionName("claude", SessionID(k))
            /\ StoreFound(file, SessionID(k))
            /\ StoreGet(file, SessionID(k)).TmuxSession = s.Name )
          => /\ markers'[DirOf(s.WorkDir)][""]
                    # SessionFileContent(SessionID(k))
             /\ s.Name \notin TmuxOf(file')]_vars

\* C7: on every launch path a session is created (and its marker written)
\* in a directory whose conflict check is not none only after an option of
\* the conflict prompt was chosen.
C7_LaunchSuspended ==
    \A t \in {"cmd", "cli"} :
        (th[t].op = "launch" /\ th[t].pc = "add")
            => (th[t].conf = NoConflict \/ th[t].resolved)

\* C8: for a marker with a valid session id, with a tmux adapter the check
\* says active exactly when the bound session (the explicit binding, else
\* the session found by the scan) is running and stale otherwise; without
\* an adapter and without an explicit binding it says external.
C8_Classification ==
    LET p == readSessionFileID(cin.content)
        bound == IF p.tmuxSession # <<>> THEN p.tmuxSession
                 ELSE FindSessionBySessionID(cin.m, p.sessionID)
        alive == bound # <<>> /\ HasSession(cin.m, bound)
    IN  p.sessionID # <<>> =>
            /\ cin.hasTmux =>
                   cres.Status = (IF alive THEN ActiveConflict
                                  ELSE StaleConflict)
            /\ (~cin.hasTmux /\ p.tmuxSession = <<>>) =>
                   cres.Status = ExternalConflict
            /\ cres.Status # NoConflict

\* C9: no step takes out of the registry the tmux name of a session that
\* is running before and after the step: records go on kill, or on a sync
\* when tmux has no such session.
C9_LiveRecordKept ==
    [][\A i \in 1..Len(file) :
          ( /\ file[i].TmuxSession \in MuxNames(mux)
            /\ file[i].TmuxSession \in MuxNames(mux') )
          => file[i].TmuxSession \in TmuxOf(file')]_vars

\* C10: when a refresh pass has re-added the last discovered session and
\* nothing else changed the registry since the pass listed the sessions,
\* the tmux names of the records are the listed sessions, and every
\* session the pass discovered has exactly one record.
C10_PassReconciles ==
    (th["tick"].pc = "readd" /\ th["tick"].disc = <<>> /\ th["tick"].quiet)
        => /\ TmuxOf(file) = Range(th["tick"].snap)
           /\ \A t \in th["tick"].rec :
                  Cardinality({ i \in 1..Len(file) :
                                  file[i].TmuxSession = t }) = 1

\* C11: every record of the registry whose provider is not empty has the
\* tmux name "vibeflow_" + provider + "-" + name, whether launch, restart
\* or the refresh loop's reconstruction wrote it.
C11_MuxNameFormat ==
    \A i \in 1..Len(file) :
        file[i].Provider # ""
            => file[i].TmuxSession
                   = FullSessionName(file[i].Provider, file[i].Name)

\* C12: at any time at most one running UI instance has acquired the PID
\* lock, whatever the interleaving of the probes, writes and releases of
\* instances that start and exit concurrently.
C12_SingleInstance ==
    Cardinality({ i \in Insts : ipc[i] = "run" /\ pidres[i] = "acquired" })
        <= 1

\* The launches in progress or just returned: the UI's and the CLI's.
Launchers == {"cmd", "cli"}

C14_NoSessionAfterWorktreeFailure ==
    \A t \in Launchers :
        th[t].wtfail =>
            /\ th[t].op = "failed"
            /\ \A s \in mux : ~Contains(s.Name, SessionID(th[t].k))

\* C15: while a session that a completed launch created in directory d is
\* running, the conflict check of d says active (so d holds a marker).
C15_ActiveWhileAlive ==
    \A s \in mux :
        (\E i \in 1..Len(file) :
            /\ file[i].TmuxSession = s.Name
            /\ file[i].Name = SubSeq(s.Name, 3, Len(s.Name)))
        => CheckConflict(markers[DirOf(s.WorkDir)][""], TRUE, mux).Status
               = ActiveConflict

\* C16: when a conflict was resolved with the Worktree option, the session
\* is created in a new worktree that is not the conflicting directory, and
\* that directory's marker and sessions are as they were.
C16_WorktreeBypass ==
    [][( /\ th["cmd"].pc = "create"
         /\ th["cmd"].resolved
         /\ th["cmd"].choice = "new"
         /\ th'["cmd"].pc = "add" )
       => LET d == th["cmd"].cdir
              workDir == th'["cmd"].meta.WorkingDir
          IN  /\ workDir = NewWorktree(th["cmd"].k)
              /\ workDir # d
              /\ markers'[d] = markers[d]
              /\ { s \in mux' : s.WorkDir = d }
                     = { s \in mux : s.WorkDir = d }]_vars

\* What a marker file can hold: nothing, what WriteSessionFile writes, and
\* the extended formats.
MarkerContents ==
    {NoFile} \cup { SessionFileContent(id) : id \in MarkerIDs }
        \cup ExtendedContents

\* CheckConflict on every marker content and mux.
ConflictOf ==
    [c \in MarkerContents, t \in MarkerMuxes |->
        CheckConflict(c, t.hasTmux, t.m)]

\* C21: a write, write-if-needed, cleanup or remove of persona p's marker
\* leaves the marker file of every other persona q (the empty one included)
\* as it was, in every directory, and a conflict check of (dir, q) gives
\* the same result before and after, whatever the mux.
C21_PersonaIsolation ==
    [][mcall'.op \in {"write", "cleanup"} =>
          \A q \in MarkerPersonas \ {mcall'.persona} :
              /\ \A d \in MarkerWorkDirs :
                     mfs'[MarkerPath(d, q)] = mfs[MarkerPath(d, q)]
              /\ \A t \in MarkerMuxes :
                     ConflictOf[mfs'[MarkerPath(mcall'.dir, q)], t]
                         = ConflictOf[mfs[MarkerPath(mcall'.dir, q)], t]]_vars

\* C21 witness: persona developer's marker has been removed from a
\* directory in which the marker without persona is still there.
C21_Witness ==
    /\ mcall.op = "cleanup" /\ ~mcall.err
    /\ mcall.persona = "developer"
    /\ mfs[MarkerPath(mcall.dir, "developer")] = NoFile
    /\ mfs[MarkerPath(mcall.dir, "")] # NoFile

\* The personas an entry name can stand for.
EntryPersonas == {"", "architect", "developer"}

\* Persona p has a valid marker file in the directory.
ValidMarker(fs, dir, p) ==
    LET f == MarkerPath(dir, p)
    IN  /\ fs[f] # NoFile /\ fs[f] # DirEntry
        /\ readSessionFileID(fs[f]).sessionID # <<>>

\* C22: check-all-sessions returns one result for each persona that has a
\* valid marker file in the directory, carrying that persona and that
\* file's path, and no other result: none for another entry, no two for
\* one persona.
C22_OneResultPerPersona ==
    mcall.op = "checkall" =>
        /\ \A p \in EntryPersonas :
               Cardinality({ i \in 1..Len(mcall.res) :
                               mcall.res[i].Persona = p })
                   = IF ValidMarker(mfs, mcall.dir, p) THEN 1 ELSE 0
        /\ \A i \in 1..Len(mcall.res) :
               /\ mcall.res[i].Persona \in EntryPersonas
               /\ mcall.res[i].FilePath
                      = MarkerPath(mcall.dir, mcall.res[i].Persona)

\* The records of a registry, as a set.
Records(sessions) == { sessions[i] : i \in 1..Len(sessions) }

\* C23: discover(L) on a registry K that can be read returns the names of
\* L that are the mux name of no record of K, each once, and the call
\* leaves the registry as it was.
C23_DiscoverCorrect ==
    (done # <<>> /\ done[1].kind = "discover") =>
        /\ file = done[1].before
        /\ done[1].ok =>
               /\ Records(done[1].ret)
                      = { x \in Records(done[1].live) :
                            x \notin TmuxOf(done[1].before) }
               /\ Cardinality(Records(done[1].ret)) = Len(done[1].ret)

\* C23 witness: of two live names, one belongs to a record that was
\* rebuilt from the listing (its short name differs from a launched
\* one's), the other to no record, and discover returned the other.
C23_Witness ==
    /\ done # <<>> /\ done[1].kind = "discover" /\ done[1].ok
    /\ Len(done[1].live) = 2
    /\ Len(done[1].ret) = 1
    /\ \E i \in 1..Len(file) : file[i].Name = <<"claude", "session", "a1">>

\* C24: sync(S) retains exactly the records whose mux name is in S, in
\* their order; and a second sync(S) right after it leaves the registry as
\* the first one left it.
C24_SyncIdempotent ==
    (done # <<>> /\ done[1].kind = "sync" /\ done[1].ok) =>
        /\ Records(file)
               = { m \in Records(done[1].before) :
                     m.TmuxSession \in Records(done[1].live) }
        /\ \E keep \in SUBSET (1..Len(done[1].before)) :
               /\ Cardinality(keep) = Len(file)
               /\ \A i \in 1..Len(file) :
                      \E k \in keep :
                          /\ done[1].before[k] = file[i]
                          /\ Cardinality({ j \in keep : j < k }) = i - 1
        /\ (/\ Len(done) = 2
            /\ done[2].kind = "sync" /\ done[2].ok
            /\ done[2].live = done[1].live)
               => file = done[1].before

\* C24 witness: the first sync(S) dropped a record and kept another, and
\* sync(S) has run a second time.
C24_Witness ==
    /\ Len(done) = 2
    /\ done[1].kind = "sync" /\ done[1].ok
    /\ done[2].kind = "sync" /\ done[2].ok
    /\ done[2].live = done[1].live
    /\ Len(done[2].before) > Len(done[1].before)
    /\ file # <<>>

\* C25: after add(meta) the registry holds exactly one record with meta's
\* name, which is meta (put last), and the records with another name are
\* the same as before, in the same order.
C25_AddReplaces ==
    (done # <<>> /\ done[1].kind = "add" /\ done[1].ok) =>
        LET meta == done[1].meta
            others(l) == SelectSeq(l, LAMBDA m : m.Name # meta.Name)
        IN  /\ Cardinality({ i \in 1..Len(file) :
                               file[i].Name = meta.Name }) = 1
            /\ file[Len(file)] = meta
            /\ others(file) = others(done[1].before)

\* C25 witness: add replaced a record of the same name that differs from
\* meta, in a registry that holds another record as well.
C25_Witness ==
    /\ done # <<>> /\ done[1].kind = "add" /\ done[1].ok
    /\ \E i \in 1..Len(done[1].before) :
           /\ done[1].before[i].Name = done[1].meta.Name
           /\ done[1].before[i] # done[1].meta
    /\ Len(file) >= 2

\* ------------------------------------------------------- tui_conflict.go

ConflictSwitch == "switch"
ConflictWorktree == "worktree"
ConflictCleanup == "cleanup"
ConflictCancel == "cancel"

\* NewConflictModal(conflict): the options by the conflict's status, the
\* cursor on the first, nothing chosen.
NewConflictModal(status, sessionID) ==
    [NoModal EXCEPT
        !.status = status,
        !.sessionID = sessionID,
        !.options =
            IF status = ActiveConflict
            THEN << [key |-> "s", label |-> "Switch to existing session",
                     action |-> ConflictSwitch],
                    [key |-> "w", label |-> "Launch in a new worktree",
                     action |-> ConflictWorktree],
                    [key |-> "c", label |-> "Cancel",
                     action |-> ConflictCancel] >>
            ELSE IF status = ExternalConflict
            THEN << [key |-> "p", label |-> "Take over (reuse session ID)",
                     action |-> ConflictCleanup],
                    [key |-> "w", label |-> "Launch in a new worktree",
                     action |-> ConflictWorktree],
                    [key |-> "c", label |-> "Cancel",
                     action |-> ConflictCancel] >>
            ELSE << [key |-> "p", label |-> "Clean up and proceed",
                     action |-> ConflictCleanup],
                    [key |-> "c", label |-> "Cancel",
                     action |-> ConflictCancel] >>]

\* The keys the prompt knows, used by the mutant of Update.
AllShortcuts ==
    << [key |-> "s", action |-> ConflictSwitch],
       [key |-> "w", action |-> ConflictWorktree],
       [key |-> "p", action |-> ConflictCleanup],
       [key |-> "c", action |-> ConflictCancel] >>

\* The first option of opts with the shortcut key; 0 when there is none.
ShortcutIndex(opts, key) ==
    LET hits == { i \in 1..Len(opts) : opts[i].key = key }
    IN  IF hits = {} THEN 0
        ELSE CHOOSE i \in hits : \A j \in hits : i <= j

\* Mutant of Update: a shortcut is looked up among all the shortcuts of
\* the prompt, not among the options offered.
UpdateAnyShortcut(m, key) ==
    LET n == Len(m.options)
        i == ShortcutIndex(AllShortcuts, key)
    IN  IF key \in {"up", "k"}
        THEN [m EXCEPT !.cursor = IF @ > 0 THEN @ - 1 ELSE @]
        ELSE IF key \in {"down", "j"}
        THEN [m EXCEPT !.cursor = IF @ < n - 1 THEN @ + 1 ELSE @]
        ELSE IF key = "enter"
        THEN [m EXCEPT !.action = m.options[m.cursor + 1].action,
                       !.done = TRUE]
        ELSE IF key = "esc"
        THEN [m EXCEPT !.action = ConflictCancel, !.done = TRUE]
        ELSE IF i # 0
        THEN [m EXCEPT !.action = AllShortcuts[i].action, !.done = TRUE]
        ELSE m

\* ConflictModal.Update for a key message.
Update(m, key) ==
    LET n == Len(m.options)
        i == ShortcutIndex(m.options, key)
    IN  IF key \in {"up", "k"}
        THEN [m EXCEPT !.cursor = IF @ > 0 THEN @ - 1 ELSE @]
        ELSE IF key \in {"down", "j"}
        THEN [m EXCEPT !.cursor = IF @ < n - 1 THEN @ + 1 ELSE @]
        ELSE IF key = "enter"
        THEN [m EXCEPT !.action = m.options[m.cursor + 1].action,
                       !.done = TRUE]
        ELSE IF key = "esc"
        THEN [m EXCEPT !.action = ConflictCancel, !.done = TRUE]
        ELSE IF i # 0
        THEN [m EXCEPT !.action = m.options[i].action, !.done = TRUE]
        ELSE m

ModalStatuses == {ActiveConflict, ExternalConflict, StaleConflict}

ModalSessionIDs == {<<"session", "1">>, <<"session", "2">>}

ModalKeys ==
    {"up", "k", "down", "j", "enter", "esc", "s", "w", "c", "p", "x"}

ModalInit ==
    /\ cm = NoModal
    /\ StoreIdle
    /\ HealthIdle
    /\ SessIdle
    /\ ConflictIdle
    /\ PidIdle
    /\ MarkIdle
    /\ RegIdle
    /\ BackoffIdle
    /\ PaneIdle
    /\ WtIdle

\* Model.Update on conflictDetectedMsg: launchFromWizard found a conflict
\* (its status is not NoConflict) and the prompt opens.  The message is
\* sent from the session view, so no prompt is open.
ModalOpen(status, sessionID) ==
    /\ cm = NoModal \/ cm.done
    /\ cm' = NewConflictModal(status, sessionID)
    /\ UNCHANGED <<storeVars, healthVars, sessVars, conflictVars, pidVars,
                   markVars, regVars,
                   backoffVars,
                   paneVars,
                   wtVars>>

\* Model.updateConflict on a key: the prompt handles it; once it is done
\* the view goes back to the sessions and the prompt gets no more keys.
ModalKey(key) ==
    /\ cm # NoModal
    /\ ~cm.done
    /\ cm' = [Update(cm, key) EXCEPT !.key = key]
    /\ UNCHANGED <<storeVars, healthVars, sessVars, conflictVars, pidVars,
                   markVars, regVars,
                   backoffVars,
                   paneVars,
                   wtVars>>

ModalNext ==
    \/ \E st \in ModalStatuses, id \in ModalSessionIDs : ModalOpen(st, id)
    \/ \E key \in ModalKeys : ModalKey(key)

ModalSpec == ModalInit /\ [][ModalNext]_vars

\* Pattern i of the registry is one match may return for (provider, text).
Eligible(patterns, i, provider, text) ==
    /\ patterns[i].Provider \in {"*", provider}
    /\ RegexMatch(patterns[i], text)

\* C26: match(kind, text) returns the first pattern, in registry order,
\* whose filter is "*" or kind and whose expression matches the text, and
\* nothing when there is none; it never returns a pattern of another
\* kind; and the call leaves the registry as it was.
C26_MatchFirstEligible ==
    [][rcall'.op = "match" =>
          LET hits == { i \in 1..Len(reg) :
                          Eligible(reg, i, rcall'.provider, rcall'.text) }
          IN  /\ reg' = reg
              /\ hits = {} => rcall'.ret = 0
              /\ hits # {} =>
                     /\ rcall'.ret \in hits
                     /\ \A j \in hits : rcall'.ret <= j
              /\ rcall'.ret # 0 =>
                     reg[rcall'.ret].Provider \in {"*", rcall'.provider}]_vars

\* C26 witness: for provider claude, a text holding a codex line and then
\* a line of the universal pattern added at run time: match skipped the
\* codex pattern, which matches the text, and returned the added one.
C26_Witness ==
    /\ rcall.op = "match" /\ rcall.provider = "claude"
    /\ rcall.text = <<"OpenAI API error", "CUSTOM_ERROR">>
    /\ rcall.ret > Len(DefaultPatterns)
    /\ reg[rcall.ret].Provider = "*"

\* C27: for a text matched both by a pattern and by a broader pattern of
\* the same agent kind (one that matches everything the first matches, and
\* more), match returns the more specific one: the pattern match returns
\* is not broader than another pattern of its kind that matches the text.
C27_SpecificBeforeBroad ==
    (rcall.op = "match" /\ rcall.ret # 0) =>
        ~ \E i \in 1..Len(reg) :
              /\ reg[i].Provider = reg[rcall.ret].Provider
              /\ reg[i].Lines # reg[rcall.ret].Lines
              /\ reg[i].Lines \subseteq reg[rcall.ret].Lines
              /\ Eligible(reg, i, rcall.provider, rcall.text)

\* What the specification names the options of a prompt: by the label and
\* the action of each.
OptionName(o) ==
    IF o.label = "Take over (reuse session ID)" /\ o.action = ConflictCleanup
    THEN "take-over"
    ELSE IF o.label = "Clean up and proceed" /\ o.action = ConflictCleanup
    THEN "cleanup"
    ELSE IF o.label = "Switch to existing session"
            /\ o.action = ConflictSwitch
    THEN "switch"
    ELSE IF o.label = "Launch in a new worktree"
            /\ o.action = ConflictWorktree
    THEN "worktree"
    ELSE IF o.label = "Cancel" /\ o.action = ConflictCancel
    THEN "cancel"
    ELSE "other"

Offered(m) == { OptionName(m.options[i]) : i \in 1..Len(m.options) }

\* C28: an open conflict prompt offers exactly switch, worktree, cancel
\* for an active conflict, take-over, worktree, cancel for an external one
\* and cleanup, cancel for a stale one, each once; and once the prompt is
\* done (by Enter, a shortcut key or Esc) the action it reports is the
\* action of one of the options it offers.
C28_PromptOffersAndReports ==
    cm # NoModal =>
        /\ cm.status = ActiveConflict =>
               Offered(cm) = {"switch", "worktree", "cancel"}
        /\ cm.status = ExternalConflict =>
               Offered(cm) = {"take-over", "worktree", "cancel"}
        /\ cm.status = StaleConflict =>
               Offered(cm) = {"cleanup", "cancel"}
        /\ Len(cm.options) = Cardinality(Offered(cm))
        /\ cm.done =>
               \E i \in 1..Len(cm.options) : cm.action = cm.options[i].action

\* C28 witness: in the prompt of a stale conflict the cursor was moved to
\* the second option and Enter reported cancel.
C28_Witness ==
    /\ cm.status = StaleConflict
    /\ cm.done /\ cm.key = "enter"
    /\ cm.cursor = 1
    /\ cm.action = ConflictCancel

\* C29: when the UI kills a session, the health monitor holds no record
\* for it afterwards: a kill step leaves no SessionHealth under the name
\* of the row whose session it ended.
C29_KilledHasNoHealth ==
    [][lastOp' = "kill" =>
          \A i \in 1..Len(rows) :
              (HasSession(mux, rows[i]) /\ ~HasSession(mux', rows[i]))
                  => ~hsess'[rows[i]].Tracked]_vars

\* The step is restartCmd up to its store.Add: the CLI goes from idle to
\* the add of a restart.
RestartStep ==
    /\ th["cli"].pc = "idle"
    /\ th'["cli"].pc = "add"
    /\ th'["cli"].op = "restart"

\* C30: restart <name> re-creates the mux session and preserves the
\* metadata: the record restartCmd stores has the name, mux session name,
\* agent kind, persona, worktree path and working directory of the record
\* it found, and a mux session of that name runs afterwards, whether the
\* record was written by a launch or rebuilt by a refresh.
C30_RestartPreservesMeta ==
    [][RestartStep =>
          LET new == th'["cli"].meta
              old == StoreGet(file, new.Name)
          IN  /\ new.Name = old.Name
              /\ new.TmuxSession = old.TmuxSession
              /\ new.Provider = old.Provider
              /\ new.Persona = old.Persona
              /\ new.WorktreePath = old.WorktreePath
              /\ DirOf(new.WorkingDir) = DirOf(old.WorkingDir)
              /\ HasSession(mux', new.TmuxSession)]_vars

\* The scan of the call found a recoverable pattern.
RecoverableMatch(call) ==
    /\ call.match # 0
    /\ DefaultPatterns[call.match].Severity = SeverityRecoverable

\* C31: a check-output on a session in error_detected never requests
\* recovery before the debounce window has elapsed since first-seen; once
\* it has elapsed, a capture with a recoverable match that differs from
\* the last output sets first-seen to now, records the new output and
\* returns no action; and a recovery request is only returned for a
\* capture equal to the last output.
C31_DebounceThenUnchanged ==
    [][\A n \in HealthNames :
          (/\ hlast'.op = "check" /\ hlast'.name = n
           /\ hsess[n].Tracked
           /\ hsess[n].Status = HealthErrorDetected)
          =>
          /\ now - hsess[n].LastErrorAt < hcfg.DebounceSeconds
                 => ~hlast'.ret
          /\ (/\ now - hsess[n].LastErrorAt >= hcfg.DebounceSeconds
              /\ RecoverableMatch(hlast')
              /\ hlast'.output # hsess[n].LastOutput)
                 => /\ ~hlast'.ret
                    /\ hsess'[n].LastErrorAt = now
                    /\ hsess'[n].LastOutput = hlast'.output
                    /\ hsess'[n].Status = HealthErrorDetected
          /\ hlast'.ret => hlast'.output = hsess[n].LastOutput]_vars

\* C31 witness: with a debounce of one clock step, a check-output on a
\* session in error_detected has returned a recovery request, a full
\* window after first-seen.
C31_Witness ==
    \E n \in HealthNames :
        /\ hlast.op = "check" /\ hlast.name = n /\ hlast.ret
        /\ hcfg.DebounceSeconds = TickSeconds
        /\ hsess[n].Status = HealthErrorDetected
        /\ now - hsess[n].LastErrorAt >= TickSeconds
        /\ hsess[n].LastOutput = hlast.output

\* A check-output with a recoverable match has just run on session n,
\* which was recovering.
CheckedRecovering(n) ==
    /\ hlast'.op = "check" /\ hlast'.name = n
    /\ hsess[n].Tracked
    /\ hsess[n].Status = HealthRecovering
    /\ RecoverableMatch(hlast')

\* What C32 says of the steps inside the backoff and of a changed capture
\* after it.
BackoffKept(n) ==
    /\ now < hsess[n].BackoffUntil
           => /\ ~hlast'.ret
              /\ hsess'[n].Status = hsess[n].Status
              /\ hsess'[n].RecoveryCount = hsess[n].RecoveryCount
    /\ (now >= hsess[n].BackoffUntil
            /\ hlast'.output # hsess[n].LastOutput)
           => /\ ~hlast'.ret
              /\ hsess'[n].Status = HealthErrorDetected
              /\ hsess'[n].LastErrorAt = now
              /\ hsess'[n].LastOutput = hlast'.output

\* The request of an unchanged capture, subject to the retry cap.
RequestedUnderCap(n) ==
    IF hsess[n].RecoveryCount < hcfg.MaxRetries
    THEN hlast'.ret /\ hsess'[n] = hsess[n]
    ELSE ~hlast'.ret /\ hsess'[n].Status = HealthFailed

\* C32: in recovering, while now < backoff-until, check-output with a
\* recoverable match returns no action and changes neither status nor
\* recovery-count; after backoff-until an unchanged capture requests
\* recovery again (subject to the retry cap) and a changed capture moves
\* the session to error_detected with a fresh first-seen.
C32_RecoveringBackoff ==
    [][\A n \in HealthNames :
          CheckedRecovering(n) =>
              /\ BackoffKept(n)
              /\ (now >= hsess[n].BackoffUntil
                      /\ hlast'.output = hsess[n].LastOutput)
                     => RequestedUnderCap(n)]_vars

\* C32, amended: as C32, but the unchanged capture after backoff-until
\* requests recovery only for a session no client is attached to; for an
\* attached one it returns no action and changes nothing.
C32_RecoveringBackoffUnlessAttached ==
    [][\A n \in HealthNames :
          CheckedRecovering(n) =>
              /\ BackoffKept(n)
              /\ (now >= hsess[n].BackoffUntil
                      /\ hlast'.output = hsess[n].LastOutput)
                     => IF hlast'.attached
                        THEN ~hlast'.ret /\ hsess'[n] = hsess[n]
                        ELSE RequestedUnderCap(n)]_vars

\* C32 witness: a check-output on a recovering session, after its backoff,
\* with the capture it had last, has requested recovery again.
C32_Witness ==
    \E n \in HealthNames :
        /\ hlast.op = "check" /\ hlast.name = n /\ hlast.ret
        /\ ~hlast.attached
        /\ hsess[n].Status = HealthRecovering
        /\ hsess[n].RecoveryCount >= 1
        /\ now >= hsess[n].BackoffUntil
        /\ hsess[n].LastOutput = hlast.output

\* The instant at + 30 s * m^(k-1), in nanoseconds, without loss.
ExactBackoffUntil(at, k, m) ==
    AddBytes(MulBytes(ToBytes(at, WideBytes),
                      ToBytes(NanosPerSecond, WideBytes)),
             BackoffNanos(k, m, WideBytes), 0)

\* C33: after the k-th successful attempt-recovery since recovery-count
\* was zeroed, backoff-until is the last-recovery time plus
\* 30 s * m^(k-1), m being the configured multiplier, or 2 when that is
\* less than 1.
C33_BackoffUntil ==
    bk.done => bk.until = ExactBackoffUntil(bk.at, bk.count, bk.multiplier)

\* A session AttemptRecovery has a message for: it is tracked and its
\* matched pattern carries a recovery message.
HasRecoveryMessage(sh) ==
    /\ sh.Tracked
    /\ sh.MatchedPattern # 0
    /\ DefaultPatterns[sh.MatchedPattern].RecoveryMessage # ""

\* C34: AttemptRecovery changes health state only on success.  A call that
\* sends nothing (SendKeys failed, the session is untracked, or its matched
\* pattern has no recovery message) leaves every session's status,
\* recovery count, last-recovery time and backoff-until as they were.
C34_RecoveryOnlyOnSuccess ==
    [][(hlast'.op = "recover" /\ ~hlast'.sent) => hsess' = hsess]_vars

\* A call of AttemptRecovery with a message to send whose SendKeys failed.
C34_Witness ==
    /\ hlast.op = "recover"
    /\ ~hlast.sent
    /\ HasRecoveryMessage(hsess[hlast.name])
    /\ hsess[hlast.name].Status = HealthErrorDetected

\* A step that is a capture tick whose capture-pane call failed or gave a
\* blank pane: such a tick, and no other, hands the monitor one of the two
\* placeholder texts.
FailedCaptureTick ==
    /\ hlast'.op = "capture"
    /\ hlast'.output \in {NoOutput, NoOutputYet}

\* C35: a capture tick whose capture-pane call fails or returns blank text
\* does not change the session's health: status, recovery count and matched
\* pattern are the same after the tick as before it.
C35_FailedCaptureKeepsHealth ==
    [][FailedCaptureTick =>
        /\ hsess'[PaneName].Status = hsess[PaneName].Status
        /\ hsess'[PaneName].RecoveryCount = hsess[PaneName].RecoveryCount
        /\ hsess'[PaneName].MatchedPattern = hsess[PaneName].MatchedPattern
      ]_vars

\* C36: no recovery message is injected into a session while a client is
\* attached to it: under any interleaving of attach and detach events,
\* refresh passes and capture ticks, a capture tick sends keys only to a
\* session that is not attached at that moment.
C36_NoSendWhileAttached ==
    [][(hlast'.op = "capture" /\ hlast'.sent) => ~tmuxAttached]_vars

\* The recovery message of the pattern with index i.
MessageOf(i) == IF i = 0 THEN "" ELSE DefaultPatterns[i].RecoveryMessage

\* C37: the recovery message AttemptRecovery sends is the recovery message of
\* the pattern matched by the most recent CheckOutput on that session, also
\* when the matched recoverable pattern changes between captures.
C37_MessageOfLatestMatch ==
    [][(hlast'.op = "capture" /\ hlast'.sent) =>
        MessageOf(hsess'[PaneName].MatchedPattern) = MessageOf(hlast'.match)
      ]_vars

\* C38: a capture that differs from the output recorded at first-seen is
\* never ignored while the session is in error_detected, also inside the
\* debounce window: it restarts the window (first-seen becomes now and the
\* new output is recorded), so that a recovery request from error_detected
\* implies that every capture checked since first-seen was identical to the
\* recorded output.
C38_ChangedCaptureRestartsWindow ==
    [][\A n \in HealthNames :
          (/\ hlast'.op = "check" /\ hlast'.name = n
           /\ hsess[n].Tracked
           /\ hsess[n].Status = HealthErrorDetected
           /\ RecoverableMatch(hlast')
           /\ hlast'.output # hsess[n].LastOutput)
          =>
          /\ ~hlast'.ret
          /\ hsess'[n].LastErrorAt = now
          /\ hsess'[n].LastOutput = hlast'.output]_vars

\* C39: any two consecutive recovery messages sent to the same session are
\* separated by at least the backoff computed after the first of them, for
\* every sequence of captures: a capture tick sends a message only when the
\* backoff-until set by the previous message has been reached.
C39_MessagesSeparatedByBackoff ==
    [][\A n \in HealthNames :
          (hlast'.op = "capture" /\ hlast'.name = n /\ hlast'.sent)
          => now >= hsess[n].BackoffUntil]_vars

\* C40: the worktree list view never removes a worktree that is the working
\* directory of a live session: whenever a worktree disappears, no tmux
\* session runs in it at that moment.
C40_NeverRemovesLiveWorktree ==
    [][\A p \in wtGit \ wtGit' : ~\E ms \in mux : ms.WorkDir = p]_vars

====
